---- MODULE Spec2Model ----
(***************************************************************************)
(* Inventory resolution and recommendation integrity of the Campbell       *)
(* Cigars concierge: the tokenizer, the inventory matcher, the response    *)
(* parser, enrichment and filtering, the image confidence guardrail and    *)
(* the request handlers that call them.                                    *)
(*                                                                         *)
(* A JavaScript string is modelled as a sequence of one-character strings, *)
(* so that equality, includes(), trim(), toLowerCase(), split() and the    *)
(* regular expressions of the source are computed character by character.  *)
(***************************************************************************)
EXTENDS Integers, Sequences, FiniteSets, TLC

VARIABLES catalog, call, ret, pc, req, response, succeeded, log, reply,
          referenceImagesCache, now, refRequests, dataFile, adminRequests

vars == <<catalog, call, ret, pc, req, response, succeeded, log, reply,
          referenceImagesCache, now, refRequests, dataFile, adminRequests>>

(* The state of the reference images: the cache of src/lib/imageUtils.ts,  *)
(* the clock, and the vision requests under way.                           *)
cacheVars == <<referenceImagesCache, now, refRequests>>

(* The catalog file that /api/inventory reads and writes, and the admin    *)
(* requests under way.                                                     *)
adminVars == <<dataFile, adminRequests>>

(***************************************************************************)
(* (CHOOSE result \in { e(x) : x \in { v } } : TRUE) is e(v), as             *)
(* LET x == v IN e(x) is, with v worked out once, before e is.             *)
(***************************************************************************)

(***************************************************************************)
(* Bounds of the model.                                                    *)
(***************************************************************************)
MaxCatalog == 2

(***************************************************************************)
(* JavaScript values.                                                      *)
(***************************************************************************)
Undefined == [t |-> "undefined"]
Null == [t |-> "null"]
Str(s) == [t |-> "str", s |-> s]
Num(n) == [t |-> "num", n |-> n]
Arr(e) == [t |-> "arr", e |-> e]
Obj(kv) == [t |-> "obj", kv |-> kv]

IsStr(v) == v.t = "str"

(***************************************************************************)
(* Characters and the string methods the source uses.                      *)
(***************************************************************************)
UpperCase == <<"A", "B", "C", "D", "E", "F", "G", "H", "I", "J", "K", "L", "M",
               "N", "O", "P", "Q", "R", "S", "T", "U", "V", "W", "X", "Y", "Z">>
LowerCase == <<"a", "b", "c", "d", "e", "f", "g", "h", "i", "j", "k", "l", "m",
               "n", "o", "p", "q", "r", "s", "t", "u", "v", "w", "x", "y", "z">>
Digits == {"0", "1", "2", "3", "4", "5", "6", "7", "8", "9"}
WhiteSpace == {" ", "\n", "\t", "\r", "\f"}

UpperCaseSet == { UpperCase[i] : i \in 1..26 }

Lower(ch) ==
  IF ch \in UpperCaseSet
  THEN LowerCase[CHOOSE i \in 1..26 : UpperCase[i] = ch]
  ELSE ch

toLowerCase(s0) == (CHOOSE result \in
                      { [i \in 1..Len(s) |-> Lower(s[i])]
                        : s \in { s0 } } : TRUE)

RECURSIVE trimStart(_)
trimStart(s0) ==
  (CHOOSE result \in
     { IF s # <<>> /\ Head(s) \in WhiteSpace THEN trimStart(Tail(s)) ELSE s
       : s \in { s0 } } : TRUE)

RECURSIVE trimEnd(_)
trimEnd(s0) ==
  (CHOOSE result \in
     { IF s # <<>> /\ s[Len(s)] \in WhiteSpace
       THEN trimEnd(SubSeq(s, 1, Len(s) - 1))
       ELSE s
       : s \in { s0 } } : TRUE)

trim(s) == trimEnd(trimStart(s))

includes(s0, sub0) ==
  (CHOOSE result \in
     { \E i \in 0..(Len(s) - Len(sub)) : SubSeq(s, i + 1, i + Len(sub)) = sub
       : s \in { s0 },
         sub \in { sub0 } } : TRUE)

SelectSeqIn(s, T) == SelectSeq(s, LAMBDA x : x \in T)
Contains(s0, x) == (CHOOSE result \in
                      { \E i \in 1..Len(s) : s[i] = x
                        : s \in { s0 } } : TRUE)

(***************************************************************************)
(* tokenize: lower-case, strip apostrophes, split on runs of separators,   *)
(* drop empty words.                                                       *)
(***************************************************************************)
SplitChars == WhiteSpace \cup {"-", "/", ".", ",", ";", ":", "(", ")"}

(* The word of s that starts at i: up to the next separator or the end. *)
wordAt(s, i) ==
  SubSeq(s, i, (CHOOSE j \in i..Len(s) :
                  /\ j = Len(s) \/ s[j + 1] \in SplitChars
                  /\ \A k \in i..j : s[k] \notin SplitChars))

(* s.split(separators).filter(w => w.length > 0): the words of s in order, *)
(* a word starting where a character that is no separator follows a        *)
(* separator or starts s.                                                  *)
split(s) ==
  (CHOOSE result \in
     { [k \in 1..Cardinality(starts) |->
          wordAt(s, CHOOSE i \in starts : Cardinality({ j \in starts : j < i }) = k - 1)]
         \o <<>>
       : starts \in { { i \in 1..Len(s) : s[i] \notin SplitChars /\ (i = 1 \/ s[i - 1] \in SplitChars) } } } : TRUE)

tokenize(str) ==
  (CHOOSE result \in
     { split(s)
       : s \in { SelectSeq(toLowerCase(str), LAMBDA ch : ch # "'") } } : TRUE)

NOISE_WORDS ==
  { <<"t", "h", "e">>,
    <<"d", "e">>,
    <<"d", "e", "l">>,
    <<"l", "a">>,
    <<"l", "a", "s">>,
    <<"l", "o", "s">>,
    <<"a", "n", "d">>,
    <<"b", "y">>,
    <<"o", "f">>,
    <<"n", "o">>,
    <<"a">>,
    <<"e", "l">>,
    <<"c", "i", "g", "a", "r">>,
    <<"c", "i", "g", "a", "r", "s">>,
    <<"t", "o", "r", "o">>,
    <<"r", "o", "b", "u", "s", "t", "o">>,
    <<"c", "h", "u", "r", "c", "h", "i", "l", "l">>,
    <<"c", "o", "r", "o", "n", "a">>,
    <<"g", "o", "r", "d", "o">>,
    <<"l", "a", "n", "c", "e", "r", "o">>,
    <<"b", "e", "l", "i", "c", "o", "s", "o">>,
    <<"t", "o", "r", "p", "e", "d", "o">>,
    <<"p", "e", "r", "f", "e", "c", "t", "o">>,
    <<"p", "e", "t", "i", "t">>,
    <<"d", "o", "u", "b", "l", "e">>,
    <<"g", "r", "a", "n">>,
    <<"g", "r", "a", "n", "d", "e">> }


(***************************************************************************)
(* Regular expressions, as JavaScript's backtracking matcher runs them.    *)
(* A pattern is a tree; Match gives, for a start state, the states in      *)
(* which the pattern can end, in the order backtracking tries them.  A     *)
(* state is the next position p and the span [cs, ce) of capture group 1   *)
(* (cs = 0: the group did not take part).                                  *)
(***************************************************************************)
Lit(s) == [k |-> "lit", s |-> s, ci |-> FALSE]
LitI(s) == [k |-> "lit", s |-> s, ci |-> TRUE]
Cls(set) == [k |-> "cls", neg |-> FALSE, set |-> set]
NotCls(set) == [k |-> "cls", neg |-> TRUE, set |-> set]
Cat(rs) == [k |-> "seq", rs |-> rs]
Alt(a, b) == [k |-> "alt", a |-> a, b |-> b]
Opt(r) == [k |-> "opt", r |-> r]
Star(r) == [k |-> "star", r |-> r]
Plus(r) == [k |-> "seq", rs |-> <<r, [k |-> "star", r |-> r]>>]
LazyStar(r) == [k |-> "lazystar", r |-> r]
LazyPlus(r) == [k |-> "seq", rs |-> <<r, [k |-> "lazystar", r |-> r]>>]
Group1(r) == [k |-> "cap", r |-> r]
Bol == [k |-> "bol"]
Eol == [k |-> "eol"]
WordBoundary == [k |-> "wb"]

Ws == Cls(WhiteSpace)                      \* \s
Digit == Cls(Digits)                       \* \d
Dot == NotCls({"\n", "\r"})                \* .
AnyChar == NotCls({})                      \* [\s\S]

WordChars ==
  { LowerCase[i] : i \in 1..26 } \cup { UpperCase[i] : i \in 1..26 }
    \cup Digits \cup {"_"}

InClass(r, ch) == IF r.neg THEN ch \notin r.set ELSE ch \in r.set

LitAt(r, s, p) ==
  /\ p + Len(r.s) - 1 <= Len(s)
  /\ \A j \in 1..Len(r.s) :
       IF r.ci THEN Lower(s[p + j - 1]) = Lower(r.s[j]) ELSE s[p + j - 1] = r.s[j]

IsWordAt(s, p) == p >= 1 /\ p <= Len(s) /\ s[p] \in WordChars

(* The number of consecutive characters of class r from position p on. *)
RunLength(r, s, p) ==
  (CHOOSE q \in p..(Len(s) + 1) :
     /\ q = Len(s) + 1 \/ ~InClass(r, s[q])
     /\ \A q2 \in p..(q - 1) : InClass(r, s[q2])) - p

RECURSIVE Match(_, _, _), MatchAll(_, _, _), MatchSeq(_, _, _, _, _), Iterate(_, _, _, _)
Match(r, s, st) ==
  CASE r.k = "lit" ->
         IF LitAt(r, s, st.p) THEN << [st EXCEPT !.p = st.p + Len(r.s)] >> ELSE <<>>
    [] r.k = "cls" ->
         IF st.p <= Len(s) /\ InClass(r, s[st.p])
         THEN << [st EXCEPT !.p = st.p + 1] >> ELSE <<>>
    [] r.k = "seq" -> MatchSeq(r.rs, 1, Len(r.rs), s, <<st>>)
    [] r.k = "alt" -> Match(r.a, s, st) \o Match(r.b, s, st)
    [] r.k = "opt" -> Match(r.r, s, st) \o <<st>>
    [] r.k = "star" ->
         IF r.r.k = "cls"
         THEN CHOOSE result \in
                { [j \in 1..(n + 1) |-> [st EXCEPT !.p = st.p + n + 1 - j]] \o <<>> :
                    n \in { RunLength(r.r, s, st.p) } } : TRUE
         ELSE CHOOSE result \in
                { [j \in 1..Len(c) |-> c[Len(c) + 1 - j]] \o <<st>> :
                    c \in { Iterate(r.r, s, st, Len(s) + 1 - st.p) } } : TRUE
    [] r.k = "lazystar" ->
         IF r.r.k = "cls"
         THEN CHOOSE result \in
                { [j \in 1..(n + 1) |-> [st EXCEPT !.p = st.p + j - 1]] \o <<>> :
                    n \in { RunLength(r.r, s, st.p) } } : TRUE
         ELSE <<st>> \o Iterate(r.r, s, st, Len(s) + 1 - st.p)
    [] r.k = "cap" ->
         CHOOSE result \in
           { [j \in 1..Len(ends) |-> [ends[j] EXCEPT !.cs = st.p, !.ce = ends[j].p]] \o <<>> :
               ends \in { Match(r.r, s, st) } } : TRUE
    [] r.k = "bol" -> IF st.p = 1 THEN <<st>> ELSE <<>>
    [] r.k = "eol" -> IF st.p = Len(s) + 1 THEN <<st>> ELSE <<>>
    [] r.k = "wb" ->
         IF IsWordAt(s, st.p - 1) # IsWordAt(s, st.p) THEN <<st>> ELSE <<>>

(* The states after one, two, ... and at most n iterations of r from st,   *)
(* for an r that can end in one way at a position, as the alternation of   *)
(* (?:[^"\\]|\\.)* does; an iteration that does not move ends the star.    *)
(* The count is halved to keep the recursion shallow.                      *)
Iterate(r, s, st, n) ==
  CASE n <= 0 -> <<>>
    [] n = 1 ->
         CHOOSE result \in
           { IF ends = <<>> THEN <<>> ELSE <<ends[1]>> :
               ends \in { SelectSeq(Match(r, s, st), LAMBDA x : x.p > st.p) } } : TRUE
    [] OTHER ->
         CHOOSE result \in
           { IF Len(a) < n \div 2 THEN a
             ELSE a \o Iterate(r, s, a[Len(a)], n - (n \div 2)) :
               a \in { Iterate(r, s, st, n \div 2) } } : TRUE

(* The ends of r from each state of sts, in order (the list is halved to   *)
(* keep the recursion shallow).                                            *)
MatchAll(r, s, sts) ==
  CASE Len(sts) = 0 -> <<>>
    [] Len(sts) = 1 -> Match(r, s, sts[1])
    [] OTHER ->
         CHOOSE result \in
           { MatchAll(r, s, a) \o MatchAll(r, s, b) :
               a \in { SubSeq(sts, 1, Len(sts) \div 2) },
               b \in { SubSeq(sts, (Len(sts) \div 2) + 1, Len(sts)) } } : TRUE

(* The ends of rs[lo], ..., rs[hi] in a row from each state of sts (the    *)
(* row is halved to keep the recursion shallow).                           *)
MatchSeq(rs, lo, hi, s, sts) ==
  CASE lo > hi -> sts
    [] lo = hi -> MatchAll(rs[lo], s, sts)
    [] OTHER ->
         CHOOSE result \in
           { MatchSeq(rs, ((lo + hi) \div 2) + 1, hi, s, mid) :
               mid \in { MatchSeq(rs, lo, (lo + hi) \div 2, s, sts) } } : TRUE

(* String.prototype.match without the g flag: the leftmost match from      *)
(* position from on, or found = FALSE.                                     *)
NoMatchAt == [found |-> FALSE, start |-> 0, end |-> 0, cs |-> 0, ce |-> 0]

(* The first way r ends from position i, as a match. *)
matchAt(r, s, i) ==
  CHOOSE result \in
    { [found |-> TRUE, start |-> i, end |-> e.p, cs |-> e.cs, ce |-> e.ce] :
        e \in { Match(r, s, [p |-> i, cs |-> 0, ce |-> 0])[1] } } : TRUE

exec(r0, s0, from) ==
  (CHOOSE result \in
     { (CHOOSE result \in
          { IF starts = {} THEN NoMatchAt
            ELSE matchAt(r, s, CHOOSE i \in starts : \A j \in starts : i <= j)
            : starts \in { { i \in from..(Len(s) + 1) : Match(r, s, [p |-> i, cs |-> 0, ce |-> 0]) # <<>> } } } : TRUE)
       : r \in { r0 },
         s \in { s0 } } : TRUE)

match(s, r) == exec(r, s, 1)

(* m[1]: the text of capture group 1 ("" when it is empty or took no part) *)
group1(s, m) == IF m.found /\ m.cs > 0 THEN SubSeq(s, m.cs, m.ce - 1) ELSE <<>>

(* s.replace(r, rep) for a literal replacement rep, with the g flag       *)
(* (all = TRUE) or without it, rewriting s from position from on.          *)
RECURSIVE replaceFrom(_, _, _, _, _)
replaceFrom(s, r, rep, from0, all) ==
  CHOOSE result \in
    { CASE ~m.found -> SubSeq(s, from, Len(s))
        [] ~all -> SubSeq(s, from, m.start - 1) \o rep \o SubSeq(s, m.end, Len(s))
        [] m.end > m.start ->
             SubSeq(s, from, m.start - 1) \o rep \o replaceFrom(s, r, rep, m.end, all)
        [] m.start > Len(s) -> SubSeq(s, from, Len(s)) \o rep
        [] OTHER ->
             SubSeq(s, from, m.start - 1) \o rep \o <<s[m.start]>>
               \o replaceFrom(s, r, rep, m.start + 1, all) :
        from \in { from0 },
        m \in { exec(r, s, from0) } } : TRUE

replaceAll(s0, r0, rep) ==
  (CHOOSE result \in
     { replaceFrom(s, r, rep, 1, TRUE)
       : s \in { s0 },
         r \in { r0 } } : TRUE)

replace(s0, r0, rep) ==
  (CHOOSE result \in
     { replaceFrom(s, r, rep, 1, FALSE)
       : s \in { s0 },
         r \in { r0 } } : TRUE)

(***************************************************************************)
(* Text.  A string is the sequence of its characters; the character        *)
(* "GRAVE" is the backtick.                                                *)
(***************************************************************************)

(* The property names the routes read and write. *)
Key ==
  [message |-> <<"m", "e", "s", "s", "a", "g", "e">>,
   cigars |-> <<"c", "i", "g", "a", "r", "s">>,
   confidence |-> <<"c", "o", "n", "f", "i", "d", "e", "n", "c", "e">>,
   name |-> <<"n", "a", "m", "e">>,
   brand |-> <<"b", "r", "a", "n", "d">>,
   origin |-> <<"o", "r", "i", "g", "i", "n">>,
   wrapper |-> <<"w", "r", "a", "p", "p", "e", "r">>,
   body |-> <<"b", "o", "d", "y">>,
   strength |-> <<"s", "t", "r", "e", "n", "g", "t", "h">>,
   price |-> <<"p", "r", "i", "c", "e">>,
   time |-> <<"t", "i", "m", "e">>,
   description |-> <<"d", "e", "s", "c", "r", "i", "p", "t", "i", "o", "n">>,
   tastingNotes |-> <<"t", "a", "s", "t", "i", "n", "g", "N", "o", "t", "e", "s">>,
   pairings |-> <<"p", "a", "i", "r", "i", "n", "g", "s">>,
   alcoholic |-> <<"a", "l", "c", "o", "h", "o", "l", "i", "c">>,
   nonAlcoholic |-> <<"n", "o", "n", "A", "l", "c", "o", "h", "o", "l", "i", "c">>,
   imageUrl |-> <<"i", "m", "a", "g", "e", "U", "r", "l">>,
   productUrl |-> <<"p", "r", "o", "d", "u", "c", "t", "U", "r", "l">>]

(* The words of the ask patterns and of the identification patterns. *)
Word ==
  [tell |-> LitI(<<"t", "e", "l", "l">>),
   me |-> LitI(<<"m", "e">>),
   about |-> LitI(<<"a", "b", "o", "u", "t">>),
   more |-> LitI(<<"m", "o", "r", "e">>),
   what |-> LitI(<<"w", "h", "a", "t">>),
   is |-> LitI(<<"i", "s">>),
   like |-> LitI(<<"l", "i", "k", "e">>),
   want |-> LitI(<<"w", "a", "n", "t">>),
   to |-> LitI(<<"t", "o">>),
   know |-> LitI(<<"k", "n", "o", "w">>),
   do |-> LitI(<<"d", "o">>),
   you |-> LitI(<<"y", "o", "u">>),
   have |-> LitI(<<"h", "a", "v", "e">>),
   show |-> LitI(<<"s", "h", "o", "w">>),
   get |-> LitI(<<"g", "e", "t">>),
   ICan |-> LitI(<<"I", " ", "c", "a", "n", " ">>),
   clearlySp |-> LitI(<<"c", "l", "e", "a", "r", "l", "y", " ">>),
   see |-> LitI(<<"s", "e", "e">>),
   thisIs |-> LitI(<<"t", "h", "i", "s", " ", "i", "s">>),
   thisIsSp |-> LitI(<<"t", "h", "i", "s", " ", "i", "s", " ">>),
   itsSp |-> LitI(<<"i", "t", "'", "s", " ">>),
   easilySp |-> LitI(<<"e", "a", "s", "i", "l", "y", " ">>),
   identify |-> LitI(<<"i", "d", "e", "n", "t", "i", "f", "y">>),
   recognize |-> LitI(<<"r", "e", "c", "o", "g", "n", "i", "z", "e">>),
   thisAs |-> LitI(<<"t", "h", "i", "s", " ", "a", "s">>),
   itAs |-> LitI(<<"i", "t", " ", "a", "s">>),
   ah |-> LitI(<<"a", "h">>),
   oh |-> LitI(<<"o", "h">>),
   ICanClearlySeeSp |->
     LitI(<<"I", " ", "c", "a", "n", " ", "c", "l", "e", "a", "r", "l", "y", " ", "s", "e", "e", " ">>)]

(* The other string literals of the routes. *)
Txt ==
  [Medium |-> <<"M", "e", "d", "i", "u", "m">>,
   dollar0 |-> <<"$", "0">>,
   t45_60min |-> <<"4", "5", "-", "6", "0", "m", "i", "n">>,
   tellMeAbout |-> <<"t", "e", "l", "l", " ", "m", "e", " ", "a", "b", "o", "u", "t", " ">>,
   null |-> <<"n", "u", "l", "l">>,
   true |-> <<"t", "r", "u", "e">>,
   false |-> <<"f", "a", "l", "s", "e">>,
   fence |-> <<"GRAVE", "GRAVE", "GRAVE">>,
   json |-> <<"j", "s", "o", "n">>,
   qconfidence |-> <<"\"", "c", "o", "n", "f", "i", "d", "e", "n", "c", "e", "\"">>,
   qmessage |-> <<"\"", "m", "e", "s", "s", "a", "g", "e", "\"">>,
   qcigars |-> <<"\"", "c", "i", "g", "a", "r", "s", "\"">>,
   qname |-> <<"\"", "n", "a", "m", "e", "\"">>,
   message |-> <<"m", "e", "s", "s", "a", "g", "e">>,
   confidence |-> <<"c", "o", "n", "f", "i", "d", "e", "n", "c", "e">>,
   ConfidenceColon |-> <<"C", "o", "n", "f", "i", "d", "e", "n", "c", "e", ":">>,
   e413 |-> <<"4", "1", "3">>,
   tooLarge |-> <<"t", "o", "o", " ", "l", "a", "r", "g", "e">>,
   e429 |-> <<"4", "2", "9">>]

(* The fixed messages the handlers answer with. *)
Fixed ==
  [happyToHelp |->
     <<"I", "'", "d", " ", "b", "e", " ", "h", "a", "p", "p", "y", " ", "t", "o", " ", "h", "e", "l", "p", "!", " ", "W", "h", "a", "t", " ", "w", "o", "u", "l", "d", " ", "y", "o", "u", " ", "l", "i", "k", "e", " ", "t", "o", " ", "k", "n", "o", "w", " ", "a", "b", "o", "u", "t", " ", "c", "i", "g", "a", "r", "s", "?">>,
   tooLarge |->
     <<"T", "h", "a", "t", " ", "i", "m", "a", "g", "e", " ", "i", "s", " ", "t", "o", "o", " ", "l", "a", "r", "g", "e", " ", "f", "o", "r", " ", "m", "e", " ", "t", "o", " ", "p", "r", "o", "c", "e", "s", "s", ".", " ", "C", "o", "u", "l", "d", " ", "y", "o", "u", " ", "t", "r", "y", " ", "t", "a", "k", "i", "n", "g", " ", "a", " ", "c", "l", "o", "s", "e", "r", " ", "p", "h", "o", "t", "o", " ", "o", "f", " ", "j", "u", "s", "t", " ", "t", "h", "e", " ", "c", "i", "g", "a", "r", " ", "b", "a", "n", "d", ",", " ", "o", "r", " ", "d", "e", "s", "c", "r", "i", "b", "e", " ", "w", "h", "a", "t", " ", "y", "o", "u", " ", "s", "e", "e", " ", "o", "n", " ", "i", "t", "?">>,
   troubleAnalyzing |->
     <<"I", "'", "m", " ", "h", "a", "v", "i", "n", "g", " ", "t", "r", "o", "u", "b", "l", "e", " ", "a", "n", "a", "l", "y", "z", "i", "n", "g", " ", "t", "h", "a", "t", " ", "i", "m", "a", "g", "e", ".", " ", "C", "o", "u", "l", "d", " ", "y", "o", "u", " ", "t", "e", "l", "l", " ", "m", "e", " ", "w", "h", "a", "t", " ", "t", "e", "x", "t", " ", "y", "o", "u", " ", "s", "e", "e", " ", "o", "n", " ", "t", "h", "e", " ", "c", "i", "g", "a", "r", " ", "b", "a", "n", "d", "?", " ", "O", "r", " ", "d", "e", "s", "c", "r", "i", "b", "e", " ", "t", "h", "e", " ", "w", "r", "a", "p", "p", "e", "r", " ", "c", "o", "l", "o", "r", "?">>,
   notCertain |->
     <<"I", "'", "m", " ", "n", "o", "t", " ", "c", "e", "r", "t", "a", "i", "n", " ", "t", "h", "a", "t", "'", "s", " ", "i", "n", " ", "o", "u", "r", " ", "i", "n", "v", "e", "n", "t", "o", "r", "y", ".", " ", "C", "a", "n", " ", "y", "o", "u", " ", "t", "e", "l", "l", " ", "m", "e", " ", "w", "h", "a", "t", " ", "t", "e", "x", "t", " ", "y", "o", "u", " ", "s", "e", "e", " ", "o", "n", " ", "t", "h", "e", " ", "b", "a", "n", "d", "?", " ", "O", "r", " ", "d", "e", "s", "c", "r", "i", "b", "e", " ", "t", "h", "e", " ", "c", "o", "l", "o", "r", "s", "?">>,
   couldntProcess |->
     <<"I", " ", "c", "o", "u", "l", "d", "n", "'", "t", " ", "p", "r", "o", "c", "e", "s", "s", " ", "t", "h", "a", "t", " ", "i", "m", "a", "g", "e", ".", " ", "C", "a", "n", " ", "y", "o", "u", " ", "d", "e", "s", "c", "r", "i", "b", "e", " ", "w", "h", "a", "t", " ", "y", "o", "u", " ", "s", "e", "e", " ", "o", "n", " ", "t", "h", "e", " ", "c", "i", "g", "a", "r", " ", "b", "a", "n", "d", "?">>,
   troubleConnecting |->
     <<"H", "a", "v", "i", "n", "g", " ", "t", "r", "o", "u", "b", "l", "e", " ", "c", "o", "n", "n", "e", "c", "t", "i", "n", "g", ".", " ", "P", "l", "e", "a", "s", "e", " ", "t", "r", "y", " ", "a", "g", "a", "i", "n", " ", "i", "n", " ", "a", " ", "m", "o", "m", "e", "n", "t", ".">>,
   topPicks |->
     <<"B", "a", "s", "e", "d", " ", "o", "n", " ", "y", "o", "u", "r", " ", "p", "r", "e", "f", "e", "r", "e", "n", "c", "e", "s", ",", " ", "h", "e", "r", "e", " ", "a", "r", "e", " ", "m", "y", " ", "t", "o", "p", " ", "p", "i", "c", "k", "s", " ", "f", "o", "r", " ", "y", "o", "u", "!">>,
   tryChat |->
     <<"I", "'", "d", " ", "b", "e", " ", "h", "a", "p", "p", "y", " ", "t", "o", " ", "h", "e", "l", "p", " ", "y", "o", "u", " ", "f", "i", "n", "d", " ", "t", "h", "e", " ", "p", "e", "r", "f", "e", "c", "t", " ", "c", "i", "g", "a", "r", "!", " ", "T", "r", "y", " ", "t", "h", "e", " ", "c", "h", "a", "t", " ", "a", "s", "s", "i", "s", "t", "a", "n", "t", " ", "f", "o", "r", " ", "p", "e", "r", "s", "o", "n", "a", "l", "i", "z", "e", "d", " ", "r", "e", "c", "o", "m", "m", "e", "n", "d", "a", "t", "i", "o", "n", "s", ".">>]

(* Names and brands for the catalog, the candidates and the queries. *)
Name ==
  [Padron |-> <<"P", "a", "d", "r", "o", "n">>,
   Oliva |-> <<"O", "l", "i", "v", "a">>,
   Reserve |-> <<"R", "e", "s", "e", "r", "v", "e">>,
   PadronReserve |-> <<"P", "a", "d", "r", "o", "n", " ", "R", "e", "s", "e", "r", "v", "e">>,
   n1964Toro |-> <<"1", "9", "6", "4", " ", "T", "o", "r", "o">>,
   Full |-> <<"F", "u", "l", "l">>,
   n1964 |-> <<"1", "9", "6", "4">>,
   Padron1964 |-> <<"p", "a", "d", "r", "o", "n", " ", "1", "9", "6", "4">>,
   ReserveToro |-> <<"R", "e", "s", "e", "r", "v", "e", " ", "T", "o", "r", "o">>,
   The |-> <<"t", "h", "e">>,
   Cohiba |-> <<"C", "o", "h", "i", "b", "a">>,
   Behike |-> <<"B", "e", "h", "i", "k", "e", " ", "5", "2">>,
   OlivaReserve |-> <<"O", "l", "i", "v", "a", " ", "R", "e", "s", "e", "r", "v", "e">>,
   Anniversary |-> <<"1", "9", "6", "4", " ", "A", "n", "n", "i", "v", "e", "r", "s", "a", "r", "y">>,
   Churchill |-> <<"C", "h", "u", "r", "c", "h", "i", "l", "l">>,
   AnniversaryMaduro |->
     <<"1", "9", "6", "4", " ", "A", "n", "n", "i", "v", "e", "r", "s", "a", "r", "y", " ", "M", "a", "d", "u", "r", "o">>]

(* What a user, a language model and a failing upstream call say. *)
Said ==
  [seePadronReserve |->
     <<"I", " ", "c", "a", "n", " ", "s", "e", "e", " ", "t", "h", "i", "s", " ", "i", "s", " ", "a", " ", "P", "a", "d", "r", "o", "n", " ", "R", "e", "s", "e", "r", "v", "e", "!">>,
   whatBand |->
     <<"W", "h", "a", "t", " ", "t", "e", "x", "t", " ", "i", "s", " ", "o", "n", " ", "t", "h", "e", " ", "b", "a", "n", "d", "?">>,
   thisIsOliva |->
     <<"A", "h", ",", " ", "t", "h", "i", "s", " ", "i", "s", " ", "a", "n", " ", "O", "l", "i", "v", "a", " ", "R", "e", "s", "e", "r", "v", "e", ",", " ", "e", "n", "j", "o", "y", ".">>,
   conf |->
     <<"L", "o", "o", "k", "s", " ", "l", "i", "k", "e", " ", "a", "n", " ", "O", "l", "i", "v", "a", " ", "(", "c", "o", "n", "f", "i", "d", "e", "n", "c", "e", ":", " ", "4", "0", "%", ")">>,
   prose |->
     <<"T", "h", "i", "s", " ", "i", "s", " ", "a", " ", "P", "a", "d", "r", "o", "n", " ", "1", "9", "6", "4", " ", "T", "o", "r", "o", ".">>,
   err413 |->
     <<"4", "1", "3", " ", "P", "a", "y", "l", "o", "a", "d", " ", "T", "o", "o", " ", "L", "a", "r", "g", "e">>,
   err429 |->
     <<"4", "2", "9", " ", "T", "o", "o", " ", "M", "a", "n", "y", " ", "R", "e", "q", "u", "e", "s", "t", "s">>,
   errTimeout |->
     <<"R", "e", "q", "u", "e", "s", "t", " ", "t", "i", "m", "e", "d", " ", "o", "u", "t">>,
   tellOliva |->
     <<"T", "e", "l", "l", " ", "m", "e", " ", "a", "b", "o", "u", "t", " ", "t", "h", "e", " ", "O", "l", "i", "v", "a", " ", "R", "e", "s", "e", "r", "v", "e">>,
   hi |-> <<"h", "i">>,
   have1964 |->
     <<"D", "o", " ", "y", "o", "u", " ", "h", "a", "v", "e", " ", "a", " ", "P", "a", "d", "r", "o", "n", " ", "1", "9", "6", "4", "?">>,
   full |->
     <<"{", "\"", "c", "o", "n", "f", "i", "d", "e", "n", "c", "e", "\"", ":", " ", "8", "2", ",", " ", "\"", "m", "e", "s", "s", "a", "g", "e", "\"", ":", " ", "\"", "A", " ", "\\", "\"", "B", "\\", "\"", " ", "c", "\\", "\\", "d", "\"", ",", " ", "\"", "c", "i", "g", "a", "r", "s", "\"", ":", " ", "[", "{", "\"", "n", "a", "m", "e", "\"", ":", " ", "\"", "P", "a", "d", "r", "o", "n", " ", "R", "e", "s", "e", "r", "v", "e", "\"", "}", "]", "}">>,
   trailingComma |->
     <<"{", "\"", "c", "o", "n", "f", "i", "d", "e", "n", "c", "e", "\"", ":", "9", "1", ",", "\"", "m", "e", "s", "s", "a", "g", "e", "\"", ":", "\"", "N", "i", "c", "e", " ", "p", "i", "c", "k", "\"", ",", "}">>,
   backslashNewline |->
     <<"{", "\"", "m", "e", "s", "s", "a", "g", "e", "\"", ":", "\"", "a", "\\", "\n", "b", "\"", ",", "\"", "c", "o", "n", "f", "i", "d", "e", "n", "c", "e", "\"", ":", "7">>,
   stringConfidence |->
     <<"{", "\"", "c", "o", "n", "f", "i", "d", "e", "n", "c", "e", "\"", ":", "\"", "8", "5", "\"", ",", "\"", "m", "e", "s", "s", "a", "g", "e", "\"", ":", "\"", "n", "o", " ", "\\", "\"", "c", "o", "n", "f", "i", "d", "e", "n", "c", "e", "\\", "\"", ":", " ", "6", "0", " ", "h", "e", "r", "e">>,
   noMessage |->
     <<"{", "\"", "c", "o", "n", "f", "i", "d", "e", "n", "c", "e", "\"", ":", "3", "0", ",", "\"", "c", "i", "g", "a", "r", "s", "\"", ":", "[", "{", "\"", "n", "a", "m", "e", "\"", ":", "\"", "1", "9", "6", "4", " ", "T", "o", "r", "o", "\"", ",", "\"", "b", "r", "a", "n", "d", "\"", ":", "\"", "P", "a", "d", "r", "o", "n", "\"">>,
   proseWithBraces |-> <<"T", "r", "y", " ", "{", "t", "h", "i", "s", "}", " ", "o", "n", "e">>]

(***************************************************************************)
(* The catalog (cigarsData.cigars): a sequence of entries.  The pool holds *)
(* two brands that share a line name, an entry whose name repeats its      *)
(* brand, and an entry without media whose optional fields are empty.      *)
(***************************************************************************)

CatalogPool ==
  << [id |-> 1, brand |-> Name.Padron, name |-> Name.Reserve,
      origin |-> <<"N", "I">>, wrapper |-> <<"w", "1">>, body |-> Name.Full,
      strength |-> Name.Full, priceRange |-> <<"$", "9">>,
      smokingTime |-> <<"6", "0">>, description |-> <<"d", "1">>,
      tastingNotes |-> << <<"n", "1">> >>,
      pairings |-> [alcoholic |-> << <<"r", "u", "m">> >>, nonAlcoholic |-> <<>>],
      imageUrl |-> <<"i", "1">>, productUrl |-> <<"u", "1">>],
     [id |-> 2, brand |-> Name.Oliva, name |-> Name.Reserve,
      origin |-> <<"N", "I">>, wrapper |-> <<"w", "2">>, body |-> Txt.Medium,
      strength |-> Txt.Medium, priceRange |-> <<"$", "7">>,
      smokingTime |-> <<"4", "5">>, description |-> <<"d", "2">>,
      tastingNotes |-> << <<"n", "2">> >>,
      pairings |-> [alcoholic |-> <<>>, nonAlcoholic |-> << <<"t", "e", "a">> >>],
      imageUrl |-> <<"i", "2">>, productUrl |-> <<>>],
     [id |-> 3, brand |-> Name.Padron, name |-> Name.PadronReserve,
      origin |-> <<"N", "I">>, wrapper |-> <<"w", "3">>, body |-> Name.Full,
      strength |-> Txt.Medium, priceRange |-> <<"$", "8">>,
      smokingTime |-> <<"5", "0">>, description |-> <<"d", "3">>,
      tastingNotes |-> << <<"n", "3">> >>,
      pairings |-> [alcoholic |-> << <<"r", "y", "e">> >>, nonAlcoholic |-> <<>>],
      imageUrl |-> <<"i", "3">>, productUrl |-> <<"u", "3">>],
     [id |-> 4, brand |-> Name.Padron, name |-> Name.n1964Toro,
      origin |-> <<>>, wrapper |-> <<>>, body |-> Name.Full,
      strength |-> Name.Full, priceRange |-> <<>>,
      smokingTime |-> <<>>, description |-> <<"d", "4">>,
      tastingNotes |-> <<>>,
      pairings |-> [alcoholic |-> <<>>, nonAlcoholic |-> <<>>],
      imageUrl |-> <<>>, productUrl |-> <<>>] >>

(* Catalogs: sequences of distinct pool entries, at most MaxCatalog long.  *)
Catalogs ==
  { [i \in 1..Len(ix) |-> CatalogPool[ix[i]]] :
      ix \in { s \in UNION { [1..n -> 1..Len(CatalogPool)] : n \in 1..MaxCatalog } :
                 \A i, j \in 1..Len(s) : i # j => s[i] # s[j] } }

(***************************************************************************)
(* findInventoryMatch: the entry of the catalog that a name and an         *)
(* optional brand resolve to.  The result is the position of the entry in  *)
(* the catalog, NoMatch for null, Thrown when the call throws a TypeError. *)
(***************************************************************************)
NoMatch == 0
Thrown == -1

isNumber(qt0) ==
  (CHOOSE result \in
     { qt # <<>> /\ \A i \in 1..Len(qt) : qt[i] \in Digits
       : qt \in { qt0 } } : TRUE)

(* The weights with the extractor's length of 5 for a distinctive token. *)
tokenWeightFive(qt0) ==
  (CHOOSE result \in
     { IF isNumber(qt) THEN 30 ELSE IF Len(qt) >= 5 THEN 20 ELSE 10
       : qt \in { qt0 } } : TRUE)

tokenWeight(qt0) ==
  (CHOOSE result \in
     { IF isNumber(qt) THEN 30 ELSE IF Len(qt) >= 6 THEN 20 ELSE 10
       : qt \in { qt0 } } : TRUE)

RECURSIVE sumWeight(_)
sumWeight(matched0) ==
  (CHOOSE result \in
     { IF matched = <<>> THEN 0
       ELSE tokenWeight(Head(matched)) + sumWeight(Tail(matched))
       : matched \in { matched0 } } : TRUE)

(* The score the loop body computes for one catalog entry c. *)
entryScore(c, queryName, queryBrand) ==
  (CHOOSE result \in
     { (CHOOSE result \in
          { (CHOOSE result \in
               { (CHOOSE result \in
                    { (CHOOSE result \in
                         { (CHOOSE result \in
                              { (CHOOSE result \in
                                   { IF cFull = qFull \/ cName = queryName THEN 100
                                     ELSE IF cFull = queryName \/ qFull = cFull THEN 98
                                     ELSE withName + (IF withName > 0 /\ (includes(qFull, cFull) \/ includes(cFull, qFull))
                                                      THEN 10 ELSE 0)
                                     : withName \in { base + (IF base > 0 /\ (includes(queryName, cName) \/ includes(cName, queryName))
                                                              THEN 15 ELSE 0) } } : TRUE)
                                : base \in { IF brandMatch /\ Len(nonBrandMatches) >= 1 THEN 20 + matchWeight
                                             ELSE IF Len(nonBrandMatches) >= 2 THEN 10 + matchWeight
                                             ELSE 0 } } : TRUE)
                           : matchWeight \in { sumWeight(matched) },
                             nonBrandMatches \in { SelectSeq(matched, LAMBDA m : ~Contains(brandTokens, m)) } } : TRUE)
                      : brandMatch \in { /\ queryBrand # <<>>
                                         /\ \/ cBrand = queryBrand
                                            \/ includes(cBrand, queryBrand)
                                            \/ includes(queryBrand, cBrand)
                                            \/ \E k \in 1..Len(cBrandTokens) : Contains(brandTokens, cBrandTokens[k]) },
                        matched \in { SelectSeq(allQueryTokens,
                                                LAMBDA qt : qt \notin NOISE_WORDS
                                                              /\ Contains(cBrandTokens \o cNameTokens, qt)) } } : TRUE)
                 : cFull \in { cBrand \o <<" ">> \o cName },
                   cBrandTokens \in { tokenize(cBrand) },
                   cNameTokens \in { tokenize(cName) } } : TRUE)
            : cName \in { toLowerCase(c.name) \o <<>> },
              cBrand \in { toLowerCase(c.brand) \o <<>> },
              allQueryTokens \in { brandTokens \o SelectSeq(nameTokens, LAMBDA t : ~Contains(brandTokens, t)) } } : TRUE)
       : nameTokens \in { tokenize(queryName) },
         brandTokens \in { tokenize(queryBrand) },
         qFull \in { IF queryBrand # <<>> THEN queryBrand \o <<" ">> \o queryName ELSE queryName } } : TRUE)

(* The loop with >= in place of >: the last entry at the maximum wins. *)
RECURSIVE matchLoopLast(_, _, _, _, _)
matchLoopLast(i, bestScore, bestMatch, queryName, queryBrand) ==
  IF i > Len(catalog)
  THEN IF bestScore >= 25 THEN bestMatch ELSE NoMatch
  ELSE (CHOOSE result \in
          { IF score >= bestScore
            THEN matchLoopLast(i + 1, score, i, queryName, queryBrand)
            ELSE matchLoopLast(i + 1, bestScore, bestMatch, queryName, queryBrand)
            : score \in { entryScore(catalog[i], queryName, queryBrand) } } : TRUE)

(* The for loop over cigarsData.cigars: bestScore and bestMatch. *)
RECURSIVE matchLoop(_, _, _, _, _)
matchLoop(i, bestScore, bestMatch, queryName, queryBrand) ==
  IF i > Len(catalog)
  THEN IF bestScore >= 25 THEN bestMatch ELSE NoMatch
  ELSE (CHOOSE result \in
          { IF score > bestScore
            THEN matchLoop(i + 1, score, i, queryName, queryBrand)
            ELSE matchLoop(i + 1, bestScore, bestMatch, queryName, queryBrand)
            : score \in { entryScore(catalog[i], queryName, queryBrand) } } : TRUE)

findInventoryMatch(cigarName0, brandName0) ==
  (CHOOSE result \in
     { IF ~IsStr(cigarName) THEN Thrown
       ELSE IF brandName.t \notin {"str", "undefined", "null"} THEN Thrown
       ELSE (CHOOSE result \in
               { matchLoop(1, 0, NoMatch, queryName, queryBrand)
                 : queryName \in { trim(toLowerCase(cigarName.s)) },
                   queryBrand \in { IF IsStr(brandName) THEN trim(toLowerCase(brandName.s)) ELSE <<>> } } : TRUE)
       : cigarName \in { cigarName0 },
         brandName \in { brandName0 } } : TRUE)

(* Names and brands a caller may pass to the matcher. *)

QueryNames ==
  { CatalogPool[i].name : i \in 1..Len(CatalogPool) }
    \cup { Name.n1964, Name.Padron1964, Name.ReserveToro, Name.OlivaReserve, Name.The, Name.Behike, <<>> }

QueryBrands ==
  { Str(CatalogPool[i].brand) : i \in 1..Len(CatalogPool) }
    \cup { Undefined, Str(<<>>), Str(Name.Cohiba) }


(***************************************************************************)
(* Property names, and property access on a JavaScript value: Get gives    *)
(* Undefined for a property the value does not have; reading a property of *)
(* null or undefined throws (CanRead is FALSE).                            *)
(***************************************************************************)

CanRead(v) == v.t \notin {"undefined", "null"}

Get(v0, key) ==
  (CHOOSE result \in
     { IF v.t = "obj" /\ \E i \in 1..Len(v.kv) : v.kv[i][1] = key
       THEN v.kv[CHOOSE i \in 1..Len(v.kv) :
                   /\ v.kv[i][1] = key
                   /\ \A j \in (i + 1)..Len(v.kv) : v.kv[j][1] # key][2]
       ELSE Undefined
       : v \in { v0 } } : TRUE)

StrArr(ss) == Arr([i \in 1..Len(ss) |-> Str(ss[i])])

(***************************************************************************)
(* findCigarFromUserMessage: the catalog entry a user's sentence asks for. *)
(***************************************************************************)
S1 == Plus(Ws)                                         \* \s+
TheOpt == Opt(Cat(<<LitI(<<"t", "h", "e">>), S1>>))    \* (?:the\s+)?

askPatterns ==
  << \* /tell\s+me\s+(?:about|more\s+about)\s+(?:the\s+)?(.+)/i
     Cat(<<Word.tell, S1, Word.me, S1, Alt(Word.about, Cat(<<Word.more, S1, Word.about>>)), S1,
           TheOpt, Group1(Plus(Dot))>>),
     \* /what(?:'s|\s+is)\s+(?:the\s+)?(.+?)\s+like\?/i
     Cat(<<Word.what, Alt(LitI(<<"'", "s">>), Cat(<<S1, Word.is>>)), S1, TheOpt,
           Group1(LazyPlus(Dot)), S1, Word.like, Lit(<<"?">>)>>),
     \* /what\s+about\s+(?:the\s+)?(.+?)(?:\?|$)/i
     Cat(<<Word.what, S1, Word.about, S1, TheOpt, Group1(LazyPlus(Dot)),
           Alt(Lit(<<"?">>), Eol)>>),
     \* /(?:want\s+to\s+know|know\s+more)\s+about\s+(?:the\s+)?(.+)/i
     Cat(<<Alt(Cat(<<Word.want, S1, Word.to, S1, Word.know>>), Cat(<<Word.know, S1, Word.more>>)),
           S1, Word.about, S1, TheOpt, Group1(Plus(Dot))>>),
     \* /do\s+you\s+have\s+(?:the\s+)?(.+?)(?:\?|$)/i
     Cat(<<Word.do, S1, Word.you, S1, Word.have, S1, TheOpt, Group1(LazyPlus(Dot)),
           Alt(Lit(<<"?">>), Eol)>>),
     \* /(?:show\s+me|get\s+me)\s+(?:the\s+)?(.+)/i
     Cat(<<Alt(Cat(<<Word.show, S1, Word.me>>), Cat(<<Word.get, S1, Word.me>>)), S1, TheOpt,
           Group1(Plus(Dot))>>),
     \* /tell\s+me\s+about\s+(.+)/i
     Cat(<<Word.tell, S1, Word.me, S1, Word.about, S1, Group1(Plus(Dot))>> ) >>

(* The loop over a pattern list: the trimmed group 1 of the first pattern  *)
(* that matches with a non-empty group, else the default.                  *)
firstCapture(patterns, s, default) ==
  CHOOSE result \in
    { IF hits = {} THEN default
      ELSE CHOOSE capture \in
             { trim(group1(s, m)) :
                 m \in { match(s, patterns[CHOOSE i \in hits : \A j \in hits : i <= j]) } } : TRUE :
        hits \in { { i \in 1..Len(patterns) :
                       \E m \in { match(s, patterns[i]) } : group1(s, m) # <<>> } } } : TRUE

(* The query that findCigarFromUserMessage extracts from msg, the message  *)
(* in lower case and trimmed.                                              *)
userQuery(msg) == firstCapture(askPatterns, msg, msg)

userTokenWeight(qt0) ==
  (CHOOSE result \in
     { IF isNumber(qt) THEN 30 ELSE IF Len(qt) >= 5 THEN 20 ELSE 10
       : qt \in { qt0 } } : TRUE)

RECURSIVE userSumWeight(_)
userSumWeight(matched0) ==
  (CHOOSE result \in
     { IF matched = <<>> THEN 0
       ELSE userTokenWeight(Head(matched)) + userSumWeight(Tail(matched))
       : matched \in { matched0 } } : TRUE)

(* The score and the match count of one entry in findCigarFromUserMessage. *)
userEntryScore(c, queryTokens) ==
  (CHOOSE result \in
     { (CHOOSE result \in
          { (CHOOSE result \in
               { (CHOOSE result \in
                    { [matchCount |-> Len(matched),
                       score |-> IF brandInQuery THEN 15 + matchWeight ELSE matchWeight]
                      : matchWeight \in { userSumWeight(matched) },
                        brandInQuery \in { \E k \in 1..Len(cBrandTokens) : Contains(queryTokens, cBrandTokens[k]) } } : TRUE)
                 : matched \in { SelectSeq(queryTokens,
                                           LAMBDA qt : qt \notin NOISE_WORDS /\ Contains(cTokens, qt)) } } : TRUE)
            : cTokens \in { tokenize(cBrand \o <<" ">> \o cName) },
              cBrandTokens \in { tokenize(cBrand) } } : TRUE)
       : cName \in { toLowerCase(c.name) \o <<>> },
         cBrand \in { toLowerCase(c.brand) \o <<>> } } : TRUE)

RECURSIVE userLoop(_, _, _, _)
userLoop(i, bestScore, bestMatch, queryTokens) ==
  IF i > Len(catalog) THEN bestMatch
  ELSE (CHOOSE result \in
          { IF e.matchCount >= 1 /\ e.score > bestScore /\ e.score >= 25
            THEN userLoop(i + 1, e.score, i, queryTokens)
            ELSE userLoop(i + 1, bestScore, bestMatch, queryTokens)
            : e \in { userEntryScore(catalog[i], queryTokens) } } : TRUE)

(* The same without the demand for two tokens in the message. *)
userMessageEntryAnyLength(userMessage) ==
  CHOOSE result \in
    { IF Len(tokenize(msg)) < 1 THEN NoMatch
      ELSE CHOOSE entry \in
             { CHOOSE best \in
                 { IF Len(queryTokens) < 1 THEN NoMatch
                   ELSE userLoop(1, 0, NoMatch, queryTokens) :
                     queryTokens \in { SelectSeq(tokenize(query),
                                                 LAMBDA t : t \notin NOISE_WORDS) } } : TRUE :
                 query \in { userQuery(msg) } } : TRUE :
        msg \in { trim(toLowerCase(userMessage)) } } : TRUE

(* The position in the catalog of the entry the message resolves to. *)
userMessageEntry(userMessage) ==
  CHOOSE result \in
    { IF Len(tokenize(msg)) < 2 THEN NoMatch
      ELSE CHOOSE entry \in
             { CHOOSE best \in
                 { IF Len(queryTokens) < 1 THEN NoMatch
                   ELSE userLoop(1, 0, NoMatch, queryTokens) :
                     queryTokens \in { SelectSeq(tokenize(query),
                                                 LAMBDA t : t \notin NOISE_WORDS) } } : TRUE :
                 query \in { userQuery(msg) } } : TRUE :
        msg \in { trim(toLowerCase(userMessage)) } } : TRUE

OrElse(s, default) == IF s # <<>> THEN s ELSE default

(* The CigarRecommendation built from a catalog entry. *)
recommendationOf(bestMatch) ==
  Obj(<< <<Key.name, Str(bestMatch.name)>>,
         <<Key.brand, Str(bestMatch.brand)>>,
         <<Key.origin, Str(bestMatch.origin)>>,
         <<Key.wrapper, Str(bestMatch.wrapper)>>,
         <<Key.body, Str(OrElse(bestMatch.body, Txt.Medium))>>,
         <<Key.strength, Str(OrElse(bestMatch.strength, Txt.Medium))>>,
         <<Key.price, Str(OrElse(bestMatch.priceRange, Txt.dollar0))>>,
         <<Key.time, Str(OrElse(bestMatch.smokingTime, Txt.t45_60min))>>,
         <<Key.description, Str(bestMatch.description)>>,
         <<Key.tastingNotes, StrArr(bestMatch.tastingNotes)>>,
         <<Key.pairings, Obj(<< <<Key.alcoholic, StrArr(bestMatch.pairings.alcoholic)>>,
                              <<Key.nonAlcoholic, StrArr(bestMatch.pairings.nonAlcoholic)>> >>)>> >>)

findCigarFromUserMessage(userMessage) ==
  (CHOOSE result \in
     { IF i = NoMatch THEN Null ELSE recommendationOf(catalog[i])
       : i \in { userMessageEntry(userMessage) } } : TRUE)

(***************************************************************************)
(* findCigarFromImageMessage: the cigar named in the vision model's prose. *)
(***************************************************************************)
AOrAn == Opt(Alt(LitI(<<"a", " ">>), LitI(<<"a", "n", " ">>)))     \* (?:a |an )?
EndOfName == Alt(Alt(Alt(Lit(<<"!">>), Lit(<<".">>)), Lit(<<",">>)), Eol)

idPatterns ==
  << \* /(?:I can (?:clearly )?see|this is) (?:this is |it's )?(?:a |an )?(.+?)(?:!|\.|,|$)/i
     Cat(<<Alt(Cat(<<Word.ICan, Opt(Word.clearlySp), Word.see>>), Word.thisIs), LitI(<<" ">>),
           Opt(Alt(Word.thisIsSp, Word.itsSp)), AOrAn, Group1(LazyPlus(Dot)), EndOfName>>),
     \* /(?:clearly |easily )?(?:identify|recognize) (?:this as|it as) (?:a |an )?(.+?)(?:!|\.|,|$)/i
     Cat(<<Opt(Alt(Word.clearlySp, Word.easilySp)), Alt(Word.identify, Word.recognize), LitI(<<" ">>),
           Alt(Word.thisAs, Word.itAs), LitI(<<" ">>), AOrAn, Group1(LazyPlus(Dot)), EndOfName>>),
     \* /(?:ah,?|oh,?)?\s*(?:I can clearly see )?this is (?:a |an )?(.+?)(?:!|\.|,|$)/i
     Cat(<<Opt(Alt(Cat(<<Word.ah, Opt(Lit(<<",">>))>>), Cat(<<Word.oh, Opt(Lit(<<",">>))>>))),
           Star(Ws), Opt(Word.ICanClearlySeeSp), Word.thisIsSp, AOrAn,
           Group1(LazyPlus(Dot)), EndOfName>>) >>

(* query.replace of the pattern ^, quote, group 1 = any characters, quote, *)
(* $ by group 1: a query wrapped in double quotes loses them.              *)
stripQuotes(q0) ==
  (CHOOSE result \in
     { (CHOOSE result \in
          { IF m.found THEN group1(q, m) ELSE q
            : m \in { match(q, Cat(<<Bol, Lit(<<"\"">>), Group1(Star(Dot)), Lit(<<"\"">>), Eol>>)) } } : TRUE)
       : q \in { q0 } } : TRUE)

imageQuery(message) ==
  stripQuotes(firstCapture(idPatterns, message, <<>>))

findCigarFromImageMessage(message) ==
  (CHOOSE result \in
     { IF query = <<>>
          \/ Len(SelectSeq(tokenize(query), LAMBDA t : t \notin NOISE_WORDS)) < 1
       THEN Null
       ELSE findCigarFromUserMessage(Txt.tellMeAbout \o query)
       : query \in { imageQuery(message) } } : TRUE)

(***************************************************************************)
(* JSON.parse on the JSON the model is asked for: objects, arrays, strings *)
(* with escapes, integers and the three literals.  A result is             *)
(* [ok |-> TRUE, v |-> value, p |-> next position] or [ok |-> FALSE], a    *)
(* SyntaxError.                                                            *)
(***************************************************************************)

Bool(b) == [t |-> "bool", b |-> b]
SyntaxError == [ok |-> FALSE]
Parsed(v, p) == [ok |-> TRUE, v |-> v, p |-> p]

JsonWs == Cls({" ", "\n", "\t", "\r"})
skipWs(s, p0) == (CHOOSE result \in
                    { p + RunLength(JsonWs, s, p)
                      : p \in { p0 } } : TRUE)

DigitSeq == <<"0", "1", "2", "3", "4", "5", "6", "7", "8", "9">>
digitValue(ch) == (CHOOSE i \in 1..10 : DigitSeq[i] = ch) - 1

(* parseInt(ds, 10) of a non-empty run of digits. *)
RECURSIVE parseInt(_)
parseInt(ds0) ==
  (CHOOSE result \in
     { IF ds = <<>> THEN 0
       ELSE 10 * parseInt(SubSeq(ds, 1, Len(ds) - 1)) + digitValue(ds[Len(ds)])
       : ds \in { ds0 } } : TRUE)

Escapes == {"\"", "\\", "/", "n", "t"}
unescape(ch) == IF ch = "n" THEN "\n" ELSE IF ch = "t" THEN "\t" ELSE ch

HasLit(s, p, l) == Len(s) >= p + Len(l) - 1 /\ SubSeq(s, p, p + Len(l) - 1) = l

(* The character at q is escaped: an odd number of backslashes precedes it *)
(* since p.                                                                *)
escaped(s, p, q) ==
  (CHOOSE n \in 0..(q - p) :
     /\ \A k \in 1..n : s[q - k] = "\\"
     /\ n = q - p \/ s[q - n - 1] # "\\") % 2 = 1

(* The characters of a string, p being the position after its opening      *)
(* quote: up to the first quote that is not escaped, every escape being    *)
(* one that JSON knows and no character a control character.               *)
jsonString(s, p0) ==
  (CHOOSE result \in
     { (CHOOSE result \in
          { IF closing = {} THEN SyntaxError
            ELSE (CHOOSE result \in
                    { IF \E i \in p..(q - 1) :
                           IF escaped(s, p, i) THEN s[i] \notin Escapes
                           ELSE s[i] \in {"\n", "\t", "\r"}
                      THEN SyntaxError
                      ELSE (CHOOSE result \in
                              { Parsed(Str([k \in 1..Len(kept) |->
                                              IF escaped(s, p, kept[k]) THEN unescape(s[kept[k]])
                                              ELSE s[kept[k]]] \o <<>>),
                                       q + 1)
                                : kept \in { SelectSeq([k \in 1..(q - p) |-> p + k - 1],
                                                       LAMBDA i : escaped(s, p, i) \/ s[i] # "\\") } } : TRUE)
                      : q \in { CHOOSE q \in closing : \A c \in closing : q <= c } } : TRUE)
            : closing \in { { q \in p..Len(s) : s[q] = "\"" /\ ~escaped(s, p, q) } } } : TRUE)
       : p \in { p0 } } : TRUE)

jsonNumber(s, p) ==
  (CHOOSE result \in
     { (CHOOSE result \in
          { (CHOOSE result \in
               { IF n = 0 \/ (n > 1 /\ s[q] = "0") THEN SyntaxError
                 ELSE (CHOOSE result \in
                         { Parsed(Num(IF neg THEN 0 - val ELSE val), q + n)
                           : val \in { parseInt(SubSeq(s, q, q + n - 1)) } } : TRUE)
                 : n \in { RunLength(Digit, s, q) } } : TRUE)
            : q \in { IF neg THEN p + 1 ELSE p } } : TRUE)
       : neg \in { p <= Len(s) /\ s[p] = "-" } } : TRUE)

(* JSON.parse reads the text in steps.  A state of the reading is what is  *)
(* expected at position p ("value", "key": a member of the innermost open  *)
(* object, "after": what follows the value v just read), the end of the    *)
(* outermost value v ("end"), or "error"; open are the containers not yet  *)
(* closed, innermost last, each with the members or elements read so far   *)
(* and, for an object, the key whose value is being read.                  *)
JsonState(at, p, v, open) == [at |-> at, p |-> p, v |-> v, open |-> open]
JsonError == JsonState("error", 0, Null, <<>>)
Opened(t) == [t |-> t, acc |-> <<>>, key |-> <<>>]

(* A string, an integer or a literal at p. *)
jsonScalar(s, p) ==
  CASE s[p] = "\"" -> jsonString(s, p + 1)
    [] s[p] \in Digits \cup {"-"} -> jsonNumber(s, p)
    [] HasLit(s, p, Txt.null) -> Parsed(Null, p + 4)
    [] HasLit(s, p, Txt.true) -> Parsed(Bool(TRUE), p + 4)
    [] HasLit(s, p, Txt.false) -> Parsed(Bool(FALSE), p + 5)
    [] OTHER -> SyntaxError

(* A value is expected at p: a container opens, an array that has no       *)
(* element yet closes, or a scalar is read.                                *)
jsonValue(s, open, p) ==
  CASE p > Len(s) -> JsonError
    [] s[p] = "{" -> JsonState("key", p + 1, Null, Append(open, Opened("obj")))
    [] s[p] = "[" -> JsonState("value", p + 1, Null, Append(open, Opened("arr")))
    [] /\ s[p] = "]"
       /\ open # <<>>
       /\ open[Len(open)] = Opened("arr") ->
         JsonState("after", p + 1, Arr(<<>>), SubSeq(open, 1, Len(open) - 1))
    [] OTHER ->
         CHOOSE result \in
           { IF r.ok THEN JsonState("after", r.p, r.v, open) ELSE JsonError :
               r \in { jsonScalar(s, p) } } : TRUE

(* A member is expected at p: an object that has no member yet closes, or  *)
(* a key and its colon are read.                                           *)
jsonKey(s, open, p) ==
  CASE p > Len(s) -> JsonError
    [] s[p] = "}" /\ open[Len(open)].acc = <<>> ->
         JsonState("after", p + 1, Obj(<<>>), SubSeq(open, 1, Len(open) - 1))
    [] s[p] = "\"" ->
         CHOOSE result \in
           { IF ~key.ok \/ skipWs(s, key.p) > Len(s) \/ s[skipWs(s, key.p)] # ":"
             THEN JsonError
             ELSE JsonState("value", skipWs(s, key.p) + 1, Null,
                            [open EXCEPT ![Len(open)].key = key.v.s]) :
               key \in { jsonString(s, p + 1) } } : TRUE
    [] OTHER -> JsonError

(* The value v has been read and p follows it: it is the outermost value,  *)
(* or it joins the innermost open container, which a comma continues and   *)
(* its bracket closes.                                                     *)
jsonAfter(s, open, v, p) ==
  IF open = <<>> THEN JsonState("end", p, v, open)
  ELSE
    CHOOSE result \in
      { CASE p > Len(s) -> JsonError
          [] s[p] = "," ->
               JsonState(IF top.t = "obj" THEN "key" ELSE "value", p + 1, Null,
                         [open EXCEPT ![Len(open)].acc = acc])
          [] s[p] = "}" /\ top.t = "obj" ->
               JsonState("after", p + 1, Obj(acc), SubSeq(open, 1, Len(open) - 1))
          [] s[p] = "]" /\ top.t = "arr" ->
               JsonState("after", p + 1, Arr(acc), SubSeq(open, 1, Len(open) - 1))
          [] OTHER -> JsonError :
          top \in { open[Len(open)] },
          acc \in { Append(open[Len(open)].acc,
                           IF open[Len(open)].t = "obj" THEN <<open[Len(open)].key, v>>
                           ELSE v) } } : TRUE

(* One step of the reading, white space skipped. *)
jsonStep(s, st) ==
  CHOOSE result \in
    { CASE st.at = "value" -> jsonValue(s, st.open, p)
        [] st.at = "key" -> jsonKey(s, st.open, p)
        [] st.at = "after" -> jsonAfter(s, st.open, st.v, p)
        [] OTHER -> st :
        p \in { skipWs(s, st.p) } } : TRUE

(* n steps from st, or as many as there are up to the end or the error     *)
(* (the count is halved to keep the recursion shallow).                    *)
RECURSIVE jsonRun(_, _, _)
jsonRun(s, st, n) ==
  IF n <= 1 THEN jsonStep(s, st)
  ELSE CHOOSE result \in
         { IF mid.at \in {"end", "error"} THEN mid ELSE jsonRun(s, mid, n - (n \div 2)) :
             mid \in { jsonRun(s, st, n \div 2) } } : TRUE

(* JSON.parse(s): every step reads a character, so Len(s) + 1 steps read   *)
(* all of s; nothing but white space may follow the outermost value.       *)
JSONparse(s0) ==
  CHOOSE result \in
    { CHOOSE result \in
        { IF st.at = "end" /\ st.p = Len(s) + 1 THEN Parsed(st.v, st.p) ELSE SyntaxError :
            st \in { jsonRun(s, JsonState("value", 1, Null, <<>>), Len(s) + 1) } } : TRUE :
        s \in { s0 } } : TRUE

(* JavaScript truthiness. *)
Truthy(v0) ==
  (CHOOSE result \in
     { CASE v.t = "undefined" -> FALSE
         [] v.t = "null" -> FALSE
         [] v.t = "str" -> v.s # <<>>
         [] v.t = "num" -> v.n # 0
         [] v.t = "bool" -> v.b
         [] OTHER -> TRUE
       : v \in { v0 } } : TRUE)

(***************************************************************************)
(* parseModelResponse: message, cigars and confidence of a model output,   *)
(* by JSON.parse and, when that fails, by regular expressions.             *)
(***************************************************************************)
(* The grave accent cannot be written in a TLA+ string: one atom stands   *)
(* for that character.                                                     *)

S0 == Star(Ws)                                         \* \s*
(* A string body that knows no escapes: it ends at the first quote. *)
StringBodyNoEscapes == Star(NotCls({"\""}))

(* (?:[^"\\]|\\.)* : the body of a string up to its closing quote *)
StringBody == Star(Alt(NotCls({"\"", "\\"}), Cat(<<Lit(<<"\\">>), Dot>>)))
EscapedQuote == Lit(<<"\\", "\"">>)

stripFences(text) ==
  trim(replace(replace(text,
                       Cat(<<Bol, Lit(Txt.fence), Opt(LitI(Txt.json)), S0>>), <<>>),
               Cat(<<Lit(Txt.fence), S0, Eol>>), <<>>))

(* The fields the regular expressions find in a text JSON.parse rejected. *)
regexFallback(cleaned) ==
  (CHOOSE result \in
     { [message |-> IF msgMatch.found
                    THEN Str(replaceAll(group1(cleaned, msgMatch), EscapedQuote, <<"\"">>))
                    ELSE Str(<<>>),
        cigars |-> IF cigarNameMatch.found
                   THEN (CHOOSE result \in
                           { IF backfill # Null THEN <<backfill>> ELSE <<>>
                             : backfill \in { findCigarFromUserMessage(
                                                Txt.tellMeAbout
                                                  \o trim(replaceAll(group1(cleaned, cigarNameMatch),
                                                                     EscapedQuote, <<"\"">>))) } } : TRUE)
                   ELSE <<>>,
        confidence |-> IF confMatch.found
                       THEN Num(parseInt(group1(cleaned, confMatch)))
                       ELSE Undefined]
       : confMatch \in { match(cleaned, Cat(<<Lit(Txt.qconfidence), S0, Lit(<<":">>), S0,
                                              Group1(Plus(Digit))>>)) },
         msgMatch \in { match(cleaned, Cat(<<Lit(Txt.qmessage), S0, Lit(<<":">>), S0,
                                             Lit(<<"\"">>), Group1(StringBody)>>)) },
         cigarNameMatch \in { match(cleaned, Cat(<<Lit(Txt.qcigars), S0, Lit(<<":">>), S0, Lit(<<"[">>), S0,
                                                   Lit(<<"{">>), S0, Lit(Txt.qname), S0, Lit(<<":">>), S0,
                                                   Lit(<<"\"">>), Group1(StringBody)>>)) } } : TRUE)

parseModelResponse(text) ==
  (CHOOSE result \in
     { (CHOOSE result \in
          { (CHOOSE result \in
               { IF jsonMatch.found /\ parsed.ok
                 THEN (CHOOSE result \in
                         { [message |-> IF Truthy(message) THEN message ELSE Str(<<>>),
                            cigars |-> IF cigars.t = "arr" THEN cigars.e ELSE <<>>,
                            confidence |-> IF confidence.t = "num" THEN confidence ELSE Undefined]
                           : message \in { Get(parsed.v, Key.message) },
                             cigars \in { Get(parsed.v, Key.cigars) },
                             confidence \in { Get(parsed.v, Key.confidence) } } : TRUE)
                 ELSE regexFallback(cleaned)
                 : parsed \in { IF jsonMatch.found
                                THEN JSONparse(SubSeq(cleaned, jsonMatch.start, jsonMatch.end - 1))
                                ELSE SyntaxError } } : TRUE)
            : jsonMatch \in { match(cleaned, Cat(<<Lit(<<"{">>), Star(AnyChar), Lit(<<"}">>)>>)) } } : TRUE)
       : cleaned \in { stripFences(text) } } : TRUE)

(***************************************************************************)
(* sanitizeMessage: the message without echoed confidence annotations.     *)
(***************************************************************************)

Quote == Lit(<<"\"">>)
Colon == Lit(<<":">>)

sanitizePatterns ==
  << \* /^"\s*message\s*"\s*:\s*"/i
     Cat(<<Bol, Quote, S0, LitI(Txt.message), S0, Quote, S0, Colon, S0, Quote>>),
     \* /\s*[\[\({]?\s*"?confidence"?\s*:\s*\d+\s*%?[\]\)}]?/gi
     Cat(<<S0, Opt(Cls({"[", "(", "{"})), S0, Opt(Quote), LitI(Txt.confidence), Opt(Quote),
           S0, Colon, S0, Plus(Digit), S0, Opt(Lit(<<"%">>)), Opt(Cls({"]", ")", "}"}))>>),
     \* /\bconfidence\s*:\s*\d+\s*%?\.?/gi
     Cat(<<WordBoundary, LitI(Txt.confidence), S0, Colon, S0, Plus(Digit), S0,
           Opt(Lit(<<"%">>)), Opt(Lit(<<".">>))>>),
     \* /\s*Confidence:\s*\d+%?\.?/gi
     Cat(<<S0, LitI(Txt.ConfidenceColon), S0, Plus(Digit), Opt(Lit(<<"%">>)),
           Opt(Lit(<<".">>))>>),
     \* /\s{2,}/g
     Cat(<<Ws, Ws, Star(Ws)>>) >>

sanitizeMessage(message) ==
  (CHOOSE result \in
     { IF out # <<>> /\ out[Len(out)] = "\"" /\ out[1] # "\""
       THEN SubSeq(out, 1, Len(out) - 1)
       ELSE out
       : out \in { trim(replaceAll(
                     replaceAll(
                       replaceAll(
                         replaceAll(
                           replaceAll(
                             replace(message, sanitizePatterns[1], <<>>),
                             sanitizePatterns[2], <<>>),
                           sanitizePatterns[3], <<>>),
                         sanitizePatterns[4], <<>>),
                       sanitizePatterns[5], <<" ">>),
                     EscapedQuote, <<"\"">>)) } } : TRUE)

(***************************************************************************)
(* parseImageResponse: the parsed vision output behind the confidence      *)
(* guardrail.  ok = FALSE: the call throws (sanitizeMessage on a message   *)
(* that is not a string).                                                  *)
(***************************************************************************)
Threw == [ok |-> FALSE]

(* The same with the backfill tried whatever the list holds. *)
parseImageResponseBackfillsAlways(text) ==
  (CHOOSE result \in
     { IF ~IsStr(parsed.message) THEN Threw
       ELSE
         (CHOOSE result \in
            { (CHOOSE result \in
                 { IF confidence < 75 /\ Len(cigars) = 0
                   THEN [ok |-> TRUE, message |-> sanitizeMessage(parsed.message.s),
                         cigars |-> <<>>, confidence |-> confidence]
                   ELSE [ok |-> TRUE, message |-> sanitizeMessage(parsed.message.s),
                         cigars |-> cigars, confidence |-> confidence]
                   : cigars \in { IF backfill # Null THEN <<backfill>> ELSE parsed.cigars },
                     confidence \in { IF backfill # Null /\ confidence0 < 75 THEN 80 ELSE confidence0 } } : TRUE)
              : confidence0 \in { IF parsed.confidence.t = "num" THEN parsed.confidence.n ELSE 50 },
                backfill \in { findCigarFromImageMessage(parsed.message.s) } } : TRUE)
       : parsed \in { parseModelResponse(text) } } : TRUE)

parseImageResponse(text) ==
  (CHOOSE result \in
     { IF ~IsStr(parsed.message) THEN Threw
       ELSE
         (CHOOSE result \in
            { (CHOOSE result \in
                 { IF confidence < 75 /\ Len(cigars) = 0
                   THEN [ok |-> TRUE, message |-> sanitizeMessage(parsed.message.s),
                         cigars |-> <<>>, confidence |-> confidence]
                   ELSE [ok |-> TRUE, message |-> sanitizeMessage(parsed.message.s),
                         cigars |-> cigars, confidence |-> confidence]
                   : cigars \in { IF backfill # Null THEN <<backfill>> ELSE parsed.cigars },
                     confidence \in { IF backfill # Null /\ confidence0 < 75 THEN 80 ELSE confidence0 } } : TRUE)
              : confidence0 \in { IF parsed.confidence.t = "num" THEN parsed.confidence.n ELSE 50 },
                backfill \in { IF Len(parsed.cigars) = 0
                               THEN findCigarFromImageMessage(parsed.message.s) ELSE Null } } : TRUE)
       : parsed \in { parseModelResponse(text) } } : TRUE)

(***************************************************************************)
(* enrichWithInventoryData and filterCigarsByInventory.  A card is the     *)
(* record of the thirteen properties the routes write; the properties are  *)
(* JavaScript values, Undefined for one that is not set.                   *)
(***************************************************************************)
StrOrUndefined(s) == IF s # <<>> THEN Str(s) ELSE Undefined
StrOr(s, v) == IF s # <<>> THEN Str(s) ELSE v

pairingsOf(inv) ==
  Obj(<< <<Key.alcoholic, StrArr(inv.pairings.alcoholic)>>,
         <<Key.nonAlcoholic, StrArr(inv.pairings.nonAlcoholic)>> >>)

(* The card of a candidate that resolved to the catalog entry inv. *)
cardOf(inv, cigar) ==
  [name |-> Str(inv.brand \o <<" ">> \o inv.name),
   brand |-> Str(inv.brand),
   origin |-> StrOr(inv.origin, Get(cigar, Key.origin)),
   wrapper |-> StrOr(inv.wrapper, Get(cigar, Key.wrapper)),
   body |-> StrOr(inv.body, Get(cigar, Key.body)),
   strength |-> StrOr(inv.strength, Get(cigar, Key.strength)),
   price |-> StrOr(inv.priceRange, Get(cigar, Key.price)),
   time |-> StrOr(inv.smokingTime, Get(cigar, Key.time)),
   description |-> StrOr(inv.description, Get(cigar, Key.description)),
   tastingNotes |-> IF Len(inv.tastingNotes) > 0 THEN StrArr(inv.tastingNotes)
                    ELSE Get(cigar, Key.tastingNotes),
   pairings |-> IF Len(inv.pairings.alcoholic) > 0 \/ Len(inv.pairings.nonAlcoholic) > 0
                THEN pairingsOf(inv)
                ELSE Get(cigar, Key.pairings),
   productUrl |-> StrOrUndefined(inv.productUrl),
   imageUrl |-> StrOrUndefined(inv.imageUrl)]

(* The candidate's own properties ({...cigar}). *)
spread(cigar) ==
  [name |-> Get(cigar, Key.name), brand |-> Get(cigar, Key.brand),
   origin |-> Get(cigar, Key.origin), wrapper |-> Get(cigar, Key.wrapper),
   body |-> Get(cigar, Key.body), strength |-> Get(cigar, Key.strength),
   price |-> Get(cigar, Key.price), time |-> Get(cigar, Key.time),
   description |-> Get(cigar, Key.description),
   tastingNotes |-> Get(cigar, Key.tastingNotes), pairings |-> Get(cigar, Key.pairings),
   productUrl |-> Get(cigar, Key.productUrl), imageUrl |-> Get(cigar, Key.imageUrl)]

(* The callback of cigars.map in the chat route: ok = FALSE when it throws *)
(* (a candidate that is null, or whose name is not a string).              *)
enrichOne(cigar) ==
  IF ~CanRead(cigar) THEN Threw
  ELSE (CHOOSE result \in
          { IF inv = Thrown THEN Threw
            ELSE IF inv = NoMatch
                 THEN [ok |-> TRUE,
                       card |-> [spread(cigar) EXCEPT !.productUrl = Undefined,
                                                      !.imageUrl = Undefined]]
                 ELSE [ok |-> TRUE, card |-> cardOf(catalog[inv], cigar)]
            : inv \in { findInventoryMatch(Get(cigar, Key.name), Get(cigar, Key.brand)) } } : TRUE)

(* The same callback in the quiz route, which returns an unresolved        *)
(* candidate as it is.                                                     *)
quizEnrichOne(cigar) ==
  IF ~CanRead(cigar) THEN Threw
  ELSE (CHOOSE result \in
          { IF inv = Thrown THEN Threw
            ELSE IF inv = NoMatch THEN [ok |-> TRUE, card |-> spread(cigar)]
                 ELSE [ok |-> TRUE, card |-> cardOf(catalog[inv], cigar)]
            : inv \in { findInventoryMatch(Get(cigar, Key.name), Get(cigar, Key.brand)) } } : TRUE)

(* cigars.map(f): the results in order, or a throw when one call throws. *)
RECURSIVE mapCigars(_, _, _, _)
mapCigars(cigars, quiz, i, acc0) ==
  (CHOOSE result \in
     { IF i > Len(cigars) THEN [ok |-> TRUE, cigars |-> acc]
       ELSE (CHOOSE result \in
               { IF ~r.ok THEN Threw
                 ELSE mapCigars(cigars, quiz, i + 1, Append(acc, r.card))
                 : r \in { IF quiz THEN quizEnrichOne(cigars[i]) ELSE enrichOne(cigars[i]) } } : TRUE)
       : acc \in { acc0 } } : TRUE)

enrichWithInventoryData(cigars0) ==
  (CHOOSE result \in
     { mapCigars(cigars, FALSE, 1, <<>>)
       : cigars \in { cigars0 } } : TRUE)

quizEnrichWithInventoryData(cigars0) ==
  (CHOOSE result \in
     { mapCigars(cigars, TRUE, 1, <<>>)
       : cigars \in { cigars0 } } : TRUE)

(* A filter that looks at productUrl alone. *)
filterByProductUrl(enriched0) ==
  (CHOOSE result \in
     { SelectSeq(enriched, LAMBDA c : Truthy(c.productUrl))
       : enriched \in { enriched0 } } : TRUE)

filterCigarsByInventory(enriched0) ==
  (CHOOSE result \in
     { SelectSeq(enriched, LAMBDA c : Truthy(c.productUrl) \/ Truthy(c.imageUrl))
       : enriched \in { enriched0 } } : TRUE)

(* The whole list, nothing cut off. *)
sliceNone(cigars0) ==
  (CHOOSE result \in
     { cigars
       : cigars \in { cigars0 } } : TRUE)

(* cigars.slice(0, 2) *)
slice2(cigars0) ==
  (CHOOSE result \in
     { SubSeq(cigars, 1, IF Len(cigars) < 2 THEN Len(cigars) ELSE 2)
       : cigars \in { cigars0 } } : TRUE)

(***************************************************************************)
(* What the language model may answer.  The model is asked for JSON; its   *)
(* well-formed answers are written out by stringify from a confidence, a   *)
(* message and a list of candidates, and its other answers are cut-off     *)
(* JSON, fenced JSON, prose, and JSON of the wrong shape.                  *)
(***************************************************************************)
RECURSIVE digitsOf(_)
digitsOf(n) ==
  IF n < 10 THEN <<DigitSeq[n + 1]>>
  ELSE digitsOf(n \div 10) \o <<DigitSeq[(n % 10) + 1]>>

RECURSIVE quoted(_)
quoted(s0) ==
  (CHOOSE result \in
     { IF s = <<>> THEN <<>>
       ELSE IF Len(s) = 1
            THEN IF s[1] \in {"\"", "\\"} THEN <<"\\", s[1]>> ELSE s
       ELSE quoted(SubSeq(s, 1, Len(s) \div 2))
              \o quoted(SubSeq(s, (Len(s) \div 2) + 1, Len(s)))
       : s \in { s0 } } : TRUE)

RECURSIVE stringify(_), stringifyAll(_, _)
stringify(v0) ==
  (CHOOSE result \in
     { CASE v.t = "str" -> <<"\"">> \o quoted(v.s) \o <<"\"">>
         [] v.t = "num" -> IF v.n < 0 THEN <<"-">> \o digitsOf(0 - v.n) ELSE digitsOf(v.n)
         [] v.t = "null" -> Txt.null
         [] v.t = "bool" -> IF v.b THEN Txt.true ELSE Txt.false
         [] v.t = "arr" -> <<"[">> \o stringifyAll(v.e, FALSE) \o <<"]">>
         [] v.t = "obj" -> <<"{">> \o stringifyAll(v.kv, TRUE) \o <<"}">>
       : v \in { v0 } } : TRUE)

stringifyAll(xs0, members) ==
  (CHOOSE result \in
     { IF xs = <<>> THEN <<>>
       ELSE (IF members
             THEN <<"\"">> \o quoted(Head(xs)[1]) \o <<"\"", ":">> \o stringify(Head(xs)[2])
             ELSE stringify(Head(xs)))
              \o (IF Len(xs) > 1 THEN <<",">> ELSE <<>>)
              \o stringifyAll(Tail(xs), members)
       : xs \in { xs0 } } : TRUE)

(* Candidates the model may put in its cigars array. *)
Candidate(name, brand) == Obj(<< <<Key.name, Str(name)>>, <<Key.brand, Str(brand)>> >>)

CandidatePool ==
  << Candidate(Name.Reserve, Name.Padron),
     Candidate(Name.Reserve, Name.Oliva),
     Obj(<< <<Key.name, Str(Name.n1964)>>, <<Key.brand, Str(Name.Padron)>>,
            <<Key.origin, Str(<<"C", "U">>)>>, <<Key.price, Str(<<"$", "1">>)>>,
            <<Key.tastingNotes, StrArr(<< <<"o", "a", "k">> >>)>>,
            <<Key.pairings, Obj(<< <<Key.alcoholic, StrArr(<< <<"g", "i", "n">> >>)>> >>)>> >>),
     Obj(<< <<Key.name, Str(Name.OlivaReserve)>>, <<Key.origin, Str(<<"D", "R">>)>> >>),
     Obj(<< <<Key.name, Str(Name.Behike)>>, <<Key.brand, Str(Name.Cohiba)>>,
            <<Key.imageUrl, Str(<<"i", "x">>)>> >>) >>

(* Elements of a cigars array that are not candidates at all. *)
MalformedCandidates ==
  { Null, Num(5), Str(Name.Reserve), Obj(<< <<Key.brand, Str(Name.Padron)>> >>),
    Obj(<< <<Key.name, Num(1964)>> >>),
    Obj(<< <<Key.name, Str(Name.Reserve)>>, <<Key.brand, Num(7)>> >>),
    Obj(<< <<Key.name, Str(Name.Reserve)>>, <<Key.brand, Null>> >>) }

MaxCigars == 2

CandidateLists ==
  UNION { [1..n -> { CandidatePool[i] : i \in 1..Len(CandidatePool) }] : n \in 0..MaxCigars }

Messages == { Said.seePadronReserve, Said.whatBand, Said.thisIsOliva, Said.conf, <<>> }
Confidences == { Undefined, Num(0), Num(50), Num(74), Num(75), Num(90) }

answer(confidence, message, cigars) ==
  stringify(Obj((IF confidence = Undefined THEN <<>>
                 ELSE << <<Key.confidence, confidence>> >>)
                \o << <<Key.message, Str(message)>>, <<Key.cigars, Arr(cigars)>> >>))

fenced(text) == Txt.fence \o Txt.json \o <<"\n">> \o text \o <<"\n">> \o Txt.fence

(* The answers the request handlers are run on: a low and a high           *)
(* confidence with a candidate, a candidate the store does not carry,      *)
(* three candidates, answers without candidates, fenced and cut-off JSON,  *)
(* prose, and JSON of the wrong shape.                                     *)
HandlerAnswers ==
  { answer(Num(50), Said.whatBand, <<CandidatePool[1]>>),
    answer(Num(90), Said.seePadronReserve, <<CandidatePool[1]>>),
    answer(Num(90), Said.conf, <<CandidatePool[5], CandidatePool[3]>>),
    answer(Num(75), <<>>, <<CandidatePool[2], CandidatePool[4], CandidatePool[1]>>),
    answer(Undefined, Said.thisIsOliva, <<>>),
    answer(Num(40), Said.whatBand, <<>>),
    answer(Num(40), <<>>, <<>>),
    fenced(answer(Num(90), Said.seePadronReserve, <<CandidatePool[4]>>)),
    SubSeq(answer(Num(82), Said.seePadronReserve, <<CandidatePool[1]>>), 1, 40),
    SubSeq(answer(Undefined, Said.whatBand, <<CandidatePool[4]>>), 1, 76),
    Said.prose,
    answer(Num(90), Said.whatBand, <<Null>>),
    stringify(Obj(<< <<Key.message, Num(5)>>, <<Key.cigars, Arr(<<CandidatePool[1]>>)>> >>)) }

(***************************************************************************)
(* The reference images of the vision requests (src/lib/imageUtils.ts):    *)
(* getReferenceImagesFromInventory and its module-level cache, called by   *)
(* the image flow of POST /api/chat with count 12 and by POST /api/scan    *)
(* with count 6.  The server runs several requests at a time; a request    *)
(* is at "idle" before its call, at "fetching" between the cache test and  *)
(* the end of its fetches, and at "sent" once it has the images it sends   *)
(* upstream with its prompt.                                               *)
(***************************************************************************)
MaxRequests == 2
MaxTicks == 3

CACHE_TTL_MS == 600000
maxPerBrand == 2
chatCount == 12
scanCount == 6

PRIORITY_REFERENCE_CIGARS ==
  << [brand |-> <<"M", "y", " ", "F", "a", "t", "h", "e", "r">>, name |-> <<"B", "l", "u", "e">>],
     [brand |-> <<"M", "y", " ", "F", "a", "t", "h", "e", "r">>, name |-> <<"L", "e", " ", "B", "i", "j", "o", "u", " ", "1", "9", "2", "2">>] >>

(* A catalog with more entries that have an image than POST /api/scan      *)
(* asks for: three of one brand, one whose imageUrl is protocol-relative,  *)
(* and the two priority cigars.                                            *)
ReferenceCatalog ==
  << [CatalogPool[1] EXCEPT !.id = 11, !.brand = <<"P", "a", "d", "r", "o", "n">>,
        !.name = <<"R", "e", "s", "e", "r", "v", "e">>,
        !.imageUrl = <<"h", "t", "t", "p", "s", ":", "/", "/", "i", "m", "g", "/", "1">>],
     [CatalogPool[1] EXCEPT !.id = 12, !.brand = <<"P", "a", "d", "r", "o", "n">>,
        !.name = <<"1", "9", "6", "4">>,
        !.imageUrl = <<"h", "t", "t", "p", "s", ":", "/", "/", "i", "m", "g", "/", "2">>],
     [CatalogPool[1] EXCEPT !.id = 13, !.brand = <<"P", "a", "d", "r", "o", "n">>,
        !.name = <<"F", "a", "m", "i", "l", "y">>,
        !.imageUrl = <<"h", "t", "t", "p", "s", ":", "/", "/", "i", "m", "g", "/", "3">>],
     [CatalogPool[1] EXCEPT !.id = 14, !.brand = <<"O", "l", "i", "v", "a">>,
        !.name = <<"R", "e", "s", "e", "r", "v", "e">>,
        !.imageUrl = <<"h", "t", "t", "p", "s", ":", "/", "/", "i", "m", "g", "/", "4">>],
     [CatalogPool[1] EXCEPT !.id = 15, !.brand = <<"O", "l", "i", "v", "a">>,
        !.name = <<"V">>,
        !.imageUrl = <<"/", "/", "c", "d", "n", "/", "5">>],
     [CatalogPool[1] EXCEPT !.id = 16, !.brand = <<"M", "y", " ", "F", "a", "t", "h", "e", "r">>,
        !.name = <<"B", "l", "u", "e">>,
        !.imageUrl = <<"h", "t", "t", "p", "s", ":", "/", "/", "i", "m", "g", "/", "6">>],
     [CatalogPool[1] EXCEPT !.id = 17, !.brand = <<"C", "o", "h", "i", "b", "a">>,
        !.name = <<"B", "e", "h", "i", "k", "e">>,
        !.imageUrl = <<"h", "t", "t", "p", "s", ":", "/", "/", "i", "m", "g", "/", "7">>],
     [CatalogPool[1] EXCEPT !.id = 18, !.brand = <<"C", "o", "h", "i", "b", "a">>,
        !.name = <<"R", "o", "b", "u", "s", "t", "o">>,
        !.imageUrl = <<"h", "t", "t", "p", "s", ":", "/", "/", "i", "m", "g", "/", "8">>],
     [CatalogPool[1] EXCEPT !.id = 19, !.brand = <<"M", "y", " ", "F", "a", "t", "h", "e", "r">>,
        !.name = <<"L", "e", " ", "B", "i", "j", "o", "u", " ", "1", "9", "2", "2">>,
        !.imageUrl = <<"h", "t", "t", "p", "s", ":", "/", "/", "i", "m", "g", "/", "9">>] >>

countOf(route) == IF route = "chat" THEN chatCount ELSE scanCount

(* c.imageUrl && c.imageUrl.startsWith('http') *)
hasHttpImage(c) ==
  Len(c.imageUrl) >= 4 /\ SubSeq(c.imageUrl, 1, 4) = <<"h", "t", "t", "p">>

(* The first loop: the priority cigars that are in withImages. *)
RECURSIVE priorityLoop(_, _, _)
priorityLoop(withImages, k, selected) ==
  IF k > Len(PRIORITY_REFERENCE_CIGARS) THEN selected
  ELSE LET p == PRIORITY_REFERENCE_CIGARS[k]
           hits == { i \in 1..Len(withImages) :
                       withImages[i].brand = p.brand /\ withImages[i].name = p.name }
           found == withImages[CHOOSE i \in hits : \A j \in hits : i <= j]
       IN  IF hits # {} /\ \A j \in 1..Len(selected) : selected[j] # found
           THEN priorityLoop(withImages, k + 1, Append(selected, found))
           ELSE priorityLoop(withImages, k + 1, selected)

(* brandCount.get(brand) ?? 0: the selected entries of the brand. *)
brandCount(selected, brand) ==
  Cardinality({ j \in 1..Len(selected) : selected[j].brand = brand })

(* The last loop over withImages: at most count entries, at most           *)
(* maxPerBrand of a brand.                                                 *)
RECURSIVE selectLoop(_, _, _, _)
selectLoop(withImages, i, selected, count) ==
  IF i > Len(withImages) \/ Len(selected) >= count THEN selected
  ELSE IF \E j \in 1..Len(selected) : selected[j] = withImages[i]
       THEN selectLoop(withImages, i + 1, selected, count)
  ELSE IF brandCount(selected, withImages[i].brand) >= maxPerBrand
       THEN selectLoop(withImages, i + 1, selected, count)
  ELSE selectLoop(withImages, i + 1, Append(selected, withImages[i]), count)

(* The entries whose images the call fetches on a cache miss. *)
selectReferences(cigars, count) ==
  LET withImages == SelectSeq(cigars, hasHttpImage)
  IN  selectLoop(withImages, 1, priorityLoop(withImages, 1, <<>>), count)

(* The image servers that do not answer while a call fetches. *)
Outages == { {}, { ReferenceCatalog[6].imageUrl } }

(* fetchImageAsBase64: the image of the url as base64, Null when the fetch *)
(* fails.                                                                  *)
fetchImageAsBase64(url, down) ==
  IF url \in down THEN Null ELSE Str(<<"b", "6", "4", ":">> \o url)

(* The results of the fetches, a failed fetch left out. *)
fetchAll(selected, down) ==
  LET fetched == [k \in 1..Len(selected) |->
                    [brand |-> selected[k].brand, name |-> selected[k].name,
                     base64 |-> fetchImageAsBase64(selected[k].imageUrl, down)]]
  IN  SelectSeq(fetched, LAMBDA x : x.base64 # Null)

IdleRequest == [route |-> "none", at |-> "idle", selected |-> <<>>, referenceImages |-> <<>>]

cacheIsFresh ==
  referenceImagesCache # Null /\ now - referenceImagesCache.fetchedAt < CACHE_TTL_MS


(***************************************************************************)
(* The catalog file of /api/inventory (src/data/cigars.json) and the       *)
(* admin requests that read and write it.  A cigar of the file has here    *)
(* its id, its name and its inventory count; POST, PUT and DELETE carry    *)
(* every other field along unchanged.                                      *)
(***************************************************************************)
fileCigar(id, name, inventory) == [id |-> id, name |-> name, inventory |-> inventory]

StoredFile ==
  << fileCigar(<<"1">>, Name.Reserve, 0), fileCigar(<<"2">>, Name.n1964Toro, 0) >>

InitialFiles == { <<>>, <<StoredFile[1]>>, StoredFile }

ADMIN_PASSWORD == <<"a", "d", "m", "i", "n", "1", "2", "3">>

Passwords == { ADMIN_PASSWORD, <<"g", "u", "e", "s", "s">> }

requiredFields == {"name", "brand", "body", "strength", "description"}

(* The bodies of POST: two that are complete and one without description.  *)
NewCigars ==
  { [name |-> n, brand |-> Name.Oliva, body |-> Name.Full, strength |-> Name.Full,
     description |-> d]
      : n \in { <<"A">>, <<"B">> }, d \in { <<"d">> } }
    \cup { [name |-> <<"A">>, brand |-> Name.Oliva, body |-> Name.Full,
            strength |-> Name.Full, description |-> <<>>] }

(* The ids a PUT or a DELETE names: <<>> is an id that is missing.         *)
RequestIds == { <<>>, <<"1">>, <<"2">>, <<"3">>, <<"9">> }

(* The bodies of PUT: { id, inventory }.                                   *)
Updates == { [id |-> id, inventory |-> n] : id \in RequestIds, n \in {5, 7} }

(* parseInt(c.id) || 0: the number the leading digits of the id spell, and *)
(* 0 where parseInt is NaN.                                                *)
idNumber(id) ==
  IF RunLength(Digit, id, 1) = 0 THEN 0
  ELSE parseInt(SubSeq(id, 1, RunLength(Digit, id, 1)))

RECURSIVE maxOf(_)
maxOf(cigars) ==
  IF Len(cigars) = 1 THEN idNumber(cigars[1].id)
  ELSE IF idNumber(cigars[Len(cigars)].id) > maxOf(SubSeq(cigars, 1, Len(cigars) - 1))
       THEN idNumber(cigars[Len(cigars)].id)
       ELSE maxOf(SubSeq(cigars, 1, Len(cigars) - 1))

(* (Math.max(...ids) + 1).toString(); Math.max() of no numbers is          *)
(* -Infinity, and so is -Infinity + 1.                                     *)
newId(cigars) ==
  IF cigars = <<>> THEN <<"-", "I", "n", "f", "i", "n", "i", "t", "y">>
  ELSE digitsOf(maxOf(cigars) + 1)

(* cigars.findIndex(c => c.id === id), 0 for -1.                           *)
findIndex(cigars, id) ==
  IF \E k \in 1..Len(cigars) : cigars[k].id = id
  THEN CHOOSE k \in 1..Len(cigars) :
         cigars[k].id = id /\ \A j \in 1..(k - 1) : cigars[j].id # id
  ELSE 0

(* cigars.splice(k, 1) *)
splice(cigars, k) == SubSeq(cigars, 1, k - 1) \o SubSeq(cigars, k + 1, Len(cigars))

IdleAdmin ==
  [at |-> "idle", method |-> "none", body |-> Null, cigarsData |-> <<>>,
   status |-> 0, cigar |-> Null]

(* NextResponse.json(..., { status }) *)
answered(a, status) == [a EXCEPT !.at = "done", !.status = status]

(***************************************************************************)
(* The request handlers.  One request: the route it came to and what it    *)
(* carries (req), the handler's position pc, the locals response and       *)
(* succeeded, the upstream calls made so far (log) and the JSON the        *)
(* handler answers with (reply).  POST /api/chat first.                    *)
(***************************************************************************)

ErrorMessages == { Said.err413, Said.err429, Said.errTimeout }
UserMessages == { Said.tellOliva, Said.have1964, Said.hi }

(* What an upstream call can do: return text (possibly none), or throw. *)
Outcomes ==
  { [k |-> "text", text |-> a] : a \in HandlerAnswers \cup { <<>> } }
    \cup { [k |-> "error", msg |-> e] : e \in ErrorMessages }

(* Gemini in the text flow can also return no response object or a        *)
(* blocked prompt.                                                         *)
GeminiOutcomes == Outcomes \cup { [k |-> "noResponse"], [k |-> "blocked"] }

Reply(message, cigars, confidence) ==
  [message |-> message, cigars |-> cigars, confidence |-> confidence]

NoReply == [message |-> Undefined, cigars |-> <<>>, confidence |-> Undefined]

Min(a, b) == IF a < b THEN a ELSE b

(* The image flow from the parse on (route.ts 691-721). *)
imageReply(resp, ok) ==
  IF ~ok \/ resp = <<>> THEN Reply(Str(Fixed.troubleAnalyzing), <<>>, Num(0))
  ELSE (CHOOSE result \in
          { IF ~parsed.ok THEN Reply(Str(Fixed.couldntProcess), <<>>, Undefined)
            ELSE (CHOOSE result \in
                    { IF ~enriched.ok THEN Reply(Str(Fixed.couldntProcess), <<>>, Undefined)
                      ELSE (CHOOSE result \in
                              { IF Len(cigars) = 0 /\ Len(parsed.cigars) > 0
                                THEN Reply(Str(Fixed.notCertain), <<>>, Num(Min(parsed.confidence, 74)))
                                ELSE Reply(Str(parsed.message), slice2(cigars), Num(parsed.confidence))
                                : cigars \in { filterCigarsByInventory(enriched.cigars) } } : TRUE)
                      : enriched \in { enrichWithInventoryData(parsed.cigars) } } : TRUE)
            : parsed \in { parseImageResponse(resp) } } : TRUE)

(* cigars.some(c => c.name.toLowerCase() === reqName &&                    *)
(*                  c.brand.toLowerCase() === reqBrand): TRUE, FALSE, or   *)
(* "throws" when a card that matches by name has a brand without           *)
(* toLowerCase.  The cards are examined in order.                          *)
RECURSIVE alreadyIncluded(_, _, _, _)
alreadyIncluded(cigars, i, reqName0, reqBrand0) ==
  (CHOOSE result \in
     { IF i > Len(cigars) THEN "false"
       ELSE IF ~IsStr(cigars[i].name) THEN "throws"
       ELSE IF toLowerCase(cigars[i].name.s) # reqName
            THEN alreadyIncluded(cigars, i + 1, reqName, reqBrand)
       ELSE IF ~IsStr(cigars[i].brand) THEN "throws"
       ELSE IF toLowerCase(cigars[i].brand.s) = reqBrand THEN "true"
       ELSE alreadyIncluded(cigars, i + 1, reqName, reqBrand)
       : reqName \in { reqName0 },
         reqBrand \in { reqBrand0 } } : TRUE)

(* The text flow from the parse on (route.ts 824-860). *)
textReply(resp, ok, lastMessage) ==
  IF ~ok \/ resp = <<>> THEN Reply(Str(Fixed.troubleConnecting), <<>>, Undefined)
  ELSE
    (CHOOSE result \in
       { (CHOOSE result \in
            { IF ~enriched.ok THEN parseError
              ELSE (CHOOSE result \in
                      { IF requestedCigar = Null
                        THEN Reply(parsed.message, slice2(enriched.cigars), Undefined)
                        ELSE (CHOOSE result \in
                                { IF included = "throws" THEN parseError
                                  ELSE IF included = "true"
                                       THEN Reply(parsed.message, slice2(enriched.cigars), Undefined)
                                  ELSE (CHOOSE result \in
                                          { IF ~requested.ok THEN parseError
                                            ELSE Reply(parsed.message,
                                                       slice2(slice2(<<requested.cigars[1]>> \o enriched.cigars)),
                                                       Undefined)
                                            : requested \in { enrichWithInventoryData(<<requestedCigar>>) } } : TRUE)
                                  : included \in { alreadyIncluded(enriched.cigars, 1,
                                                                   toLowerCase(Get(requestedCigar, Key.name).s),
                                                                   toLowerCase(Get(requestedCigar, Key.brand).s)) } } : TRUE)
                        : requestedCigar \in { findCigarFromUserMessage(lastMessage) } } : TRUE)
              : enriched \in { enrichWithInventoryData(parsed.cigars) } } : TRUE)
         : parsed \in { parseModelResponse(resp) },
           parseError \in { Reply(Str(resp), <<>>, Undefined) } } : TRUE)

Init ==
  /\ catalog \in Catalogs
  /\ call = [fn |-> "none"]
  /\ ret = NoMatch
  /\ pc = "idle"
  /\ req = [route |-> "none", image |-> FALSE, lastMessage |-> <<>>,
            hasGroq |-> FALSE, hasGemini |-> FALSE]
  /\ response = <<>>
  /\ succeeded = FALSE
  /\ log = <<>>
  /\ reply = NoReply
  /\ referenceImagesCache = Null
  /\ now = 0
  /\ refRequests = [r \in 1..MaxRequests |-> IdleRequest]
  /\ dataFile = StoredFile
  /\ adminRequests = [r \in 1..MaxRequests |-> IdleAdmin]

(* The request arrives; without any provider key the handler answers at    *)
(* once.  An image request carries no text here; it gets its reference     *)
(* images before the first provider is called.                             *)
ChatStart ==
  /\ pc = "idle"
  /\ \E image \in BOOLEAN, hasGroq \in BOOLEAN, hasGemini \in BOOLEAN,
        lastMessage \in UserMessages \cup { <<>> } :
       /\ image <=> lastMessage = <<>>
       /\ req' = [route |-> "chat", image |-> image, lastMessage |-> lastMessage,
                  hasGroq |-> hasGroq, hasGemini |-> hasGemini]
       /\ pc' = IF ~hasGroq /\ ~hasGemini THEN "done"
                ELSE IF hasGroq THEN "groq" ELSE "gemini"
       /\ reply' = IF ~hasGroq /\ ~hasGemini
                   THEN Reply(Str(Fixed.happyToHelp), <<>>, Undefined)
                   ELSE reply
       /\ \E down \in Outages :
            referenceImagesCache' =
              IF image /\ (hasGroq \/ hasGemini) /\ ~cacheIsFresh
              THEN [images |-> fetchAll(selectReferences(catalog, chatCount), down),
                    fetchedAt |-> now]
              ELSE referenceImagesCache
  /\ UNCHANGED <<catalog, call, ret, response, succeeded, log, now, refRequests, adminVars>>

(* The same step answering with the error's own message. *)
ChatGroqEchoesError ==
  /\ req.route = "chat"
  /\ pc = "groq"
  /\ \E out \in Outcomes :
       LET tooLarge == /\ req.image
                       /\ out.k = "error"
                       /\ includes(out.msg, Txt.e413) \/ includes(out.msg, Txt.tooLarge)
           ok == out.k = "text" /\ out.text # <<>>
       IN  /\ log' = Append(log, "groq")
           /\ response' = IF out.k = "text" THEN out.text ELSE response
           /\ succeeded' = ok
           /\ reply' = IF tooLarge THEN Reply(Str(out.msg), <<>>, Num(0)) ELSE reply
           /\ pc' = IF tooLarge THEN "done"
                    ELSE IF ~ok /\ req.hasGemini THEN "gemini"
                    ELSE "respond"
  /\ UNCHANGED <<catalog, call, ret, req, cacheVars, adminVars>>

(* await groq.chat.completions.create(...) and what follows it up to the   *)
(* Gemini condition.                                                       *)
ChatGroq ==
  /\ req.route = "chat"
  /\ pc = "groq"
  /\ \E out \in Outcomes :
       LET tooLarge == /\ req.image
                       /\ out.k = "error"
                       /\ includes(out.msg, Txt.e413) \/ includes(out.msg, Txt.tooLarge)
           ok == out.k = "text" /\ out.text # <<>>
       IN  /\ log' = Append(log, "groq")
           /\ response' = IF out.k = "text" THEN out.text ELSE response
           /\ succeeded' = ok
           /\ reply' = IF tooLarge THEN Reply(Str(Fixed.tooLarge), <<>>, Num(0)) ELSE reply
           /\ pc' = IF tooLarge THEN "done"
                    ELSE IF ~ok /\ req.hasGemini THEN "gemini"
                    ELSE "respond"
  /\ UNCHANGED <<catalog, call, ret, req, cacheVars, adminVars>>

(* The same with a retry after every 429, the retry's own included. *)
geminiStepRetriesAgain(retryAfter429) ==
  \E out \in GeminiOutcomes :
  \E text \in { IF out.k # "text" THEN <<>>
                ELSE IF req.image THEN out.text ELSE trim(out.text) } :
    LET retry == /\ ~req.image
                 /\ out.k = "error"
                 /\ includes(out.msg, Txt.e429)
                 /\ retryAfter429 \in BOOLEAN
    IN  /\ req.image => out.k \in {"text", "error"}
        /\ log' = Append(log, IF out.k = "error" /\ includes(out.msg, Txt.e429)
                               THEN "gemini429" ELSE "gemini")
        /\ response' = IF text # <<>> THEN text
                       ELSE IF req.image /\ out.k = "text" THEN <<>>
                       ELSE response
        /\ succeeded' = (text # <<>>)
        /\ pc' = IF retry THEN "geminiRetry" ELSE "respond"

(* The Gemini call: model.generateContent in the image flow, and           *)
(* tryGemini(retryAfter429) in the text flow, where an error that names    *)
(* 429 is retried once.  The log has "gemini429" for a call that threw     *)
(* such an error.                                                          *)
geminiStep(retryAfter429) ==
  \E out \in GeminiOutcomes :
  \E text \in { IF out.k # "text" THEN <<>>
                ELSE IF req.image THEN out.text ELSE trim(out.text) } :
    LET retry == /\ ~req.image
                 /\ out.k = "error"
                 /\ includes(out.msg, Txt.e429)
                 /\ ~retryAfter429
    IN  /\ req.image => out.k \in {"text", "error"}
        /\ log' = Append(log, IF out.k = "error" /\ includes(out.msg, Txt.e429)
                               THEN "gemini429" ELSE "gemini")
        /\ response' = IF text # <<>> THEN text
                       ELSE IF req.image /\ out.k = "text" THEN <<>>
                       ELSE response
        /\ succeeded' = (text # <<>>)
        /\ pc' = IF retry THEN "geminiRetry" ELSE "respond"

ChatGemini ==
  /\ req.route = "chat"
  /\ pc = "gemini"
  /\ geminiStep(FALSE)
  /\ UNCHANGED <<catalog, call, ret, req, reply, cacheVars, adminVars>>

ChatGeminiRetry ==
  /\ req.route = "chat"
  /\ pc = "geminiRetry"
  /\ geminiStep(TRUE)
  /\ UNCHANGED <<catalog, call, ret, req, reply, cacheVars, adminVars>>

ChatRespond ==
  /\ req.route = "chat"
  /\ pc = "respond"
  /\ reply' = IF req.image THEN imageReply(response, succeeded)
              ELSE textReply(response, succeeded, req.lastMessage)
  /\ pc' = "done"
  /\ UNCHANGED <<catalog, call, ret, req, response, succeeded, log, cacheVars, adminVars>>


(***************************************************************************)
(* POST /api/quiz-recommendations: one Groq call, no fallback.             *)
(***************************************************************************)

(* The inner try of the quiz handler: message and cigars from the model's  *)
(* text.                                                                   *)
quizParse(responseText) ==
  (CHOOSE result \in
     { (CHOOSE result \in
          { (CHOOSE result \in
               { IF jsonMatch.found /\ parsed.ok
                 THEN (CHOOSE result \in
                         { [message |-> IF Truthy(message) THEN message ELSE Str(Fixed.topPicks),
                            cigars |-> IF cigars.t = "arr" THEN cigars.e ELSE <<>>]
                           : message \in { Get(parsed.v, Key.message) },
                             cigars \in { Get(parsed.v, Key.cigars) } } : TRUE)
                 ELSE [message |-> Str(Fixed.topPicks), cigars |-> <<>>]
                 : parsed \in { IF jsonMatch.found
                                THEN JSONparse(SubSeq(cleaned, jsonMatch.start, jsonMatch.end - 1))
                                ELSE SyntaxError } } : TRUE)
            : jsonMatch \in { match(cleaned, Cat(<<Lit(<<"{">>), Star(AnyChar), Lit(<<"}">>)>>)) } } : TRUE)
       : cleaned \in { replaceAll(replaceAll(responseText,
                                             Cat(<<Lit(Txt.fence), LitI(Txt.json), S0>>), <<>>),
                                  Cat(<<Lit(Txt.fence), S0>>), <<>>) } } : TRUE)

quizReply(responseText) ==
  (CHOOSE result \in
     { (CHOOSE result \in
          { IF ~enriched.ok THEN Reply(Str(Fixed.tryChat), <<>>, Undefined)
            ELSE Reply(parsed.message, slice2(enriched.cigars), Undefined)
            : enriched \in { quizEnrichWithInventoryData(parsed.cigars) } } : TRUE)
       : parsed \in { quizParse(responseText) } } : TRUE)

QuizStart ==
  /\ pc = "idle"
  /\ \E hasKey \in BOOLEAN :
       /\ req' = [route |-> "quiz", image |-> FALSE, lastMessage |-> <<>>,
                  hasGroq |-> hasKey, hasGemini |-> FALSE]
       /\ pc' = IF hasKey THEN "groq" ELSE "done"
       /\ reply' = IF hasKey THEN reply ELSE Reply(Str(Fixed.topPicks), <<>>, Undefined)
  /\ UNCHANGED <<catalog, call, ret, response, succeeded, log, cacheVars, adminVars>>

(* await groq.chat.completions.create(...); a thrown error is answered at  *)
(* once.                                                                   *)
QuizGroq ==
  /\ req.route = "quiz"
  /\ pc = "groq"
  /\ \E out \in Outcomes :
       /\ log' = Append(log, "groq")
       /\ response' = IF out.k = "text" THEN out.text ELSE response
       /\ reply' = IF out.k = "error" THEN Reply(Str(Fixed.tryChat), <<>>, Undefined) ELSE reply
       /\ pc' = IF out.k = "error" THEN "done" ELSE "respond"
  /\ UNCHANGED <<catalog, call, ret, req, succeeded, cacheVars, adminVars>>

QuizRespond ==
  /\ req.route = "quiz"
  /\ pc = "respond"
  /\ reply' = quizReply(response)
  /\ pc' = "done"
  /\ UNCHANGED <<catalog, call, ret, req, response, succeeded, log, cacheVars, adminVars>>

(* A request to either route. *)
Next ==
  \/ ChatStart \/ ChatGroq \/ ChatGemini \/ ChatGeminiRetry \/ ChatRespond
  \/ QuizStart \/ QuizGroq \/ QuizRespond

Spec == Init /\ [][Next]_vars

(* One request with one catalog, where every awaited upstream call         *)
(* returns or throws and a handler that can take its next step takes it.   *)
InitFair == Init /\ catalog = <<CatalogPool[1], CatalogPool[2]>>

SpecFair == InitFair /\ [][Next]_vars /\ WF_vars(Next)

(***************************************************************************)
(* The matcher on its own: a catalog and one call of findInventoryMatch.   *)
(***************************************************************************)
handlerVars == <<pc, req, response, succeeded, log, reply>>

CallFindInventoryMatch ==
  /\ call.fn = "none"
  /\ \E n \in QueryNames, b \in QueryBrands :
       /\ call' = [fn |-> "findInventoryMatch", cigarName |-> Str(n), brandName |-> b]
       /\ ret' = findInventoryMatch(Str(n), b)
  /\ UNCHANGED <<catalog, handlerVars, cacheVars, adminVars>>

NextMatch == CallFindInventoryMatch

SpecMatch == Init /\ [][NextMatch]_vars


(***************************************************************************)
(* Enrichment on its own: enrichWithInventoryData on a list of candidates, *)
(* then either the filter or a second enrichment of the cards it made.     *)
(***************************************************************************)
(* A card as the object the next call reads its properties from. *)
asObject(card) ==
  Obj(<< <<Key.name, card.name>>, <<Key.brand, card.brand>>,
         <<Key.origin, card.origin>>, <<Key.wrapper, card.wrapper>>,
         <<Key.body, card.body>>, <<Key.strength, card.strength>>,
         <<Key.price, card.price>>, <<Key.time, card.time>>,
         <<Key.description, card.description>>,
         <<Key.tastingNotes, card.tastingNotes>>, <<Key.pairings, card.pairings>>,
         <<Key.productUrl, card.productUrl>>, <<Key.imageUrl, card.imageUrl>> >>)

(* The candidates built from the catalog's own entries. *)
InventoryCandidates == { <<recommendationOf(catalog[i])>> : i \in 1..Len(catalog) }

(* A candidate of the model next to one built from the catalog, as the    *)
(* text flow enriches both.                                                *)
CandidatePairs ==
  { <<CandidatePool[k], recommendationOf(catalog[i])>> :
      k \in 1..Len(CandidatePool), i \in 1..Len(catalog) }

CallEnrich ==
  /\ call.fn = "none"
  /\ \E cigars \in CandidateLists \cup InventoryCandidates \cup CandidatePairs :
       /\ call' = [fn |-> "enrichWithInventoryData", cigars |-> cigars]
       /\ ret' = enrichWithInventoryData(cigars)
  /\ UNCHANGED <<catalog, handlerVars, cacheVars, adminVars>>

(* filterCigarsByInventory(enrichWithInventoryData(cigars)) *)
CallFilter ==
  /\ call.fn = "enrichWithInventoryData"
  /\ ret.ok
  /\ call' = [fn |-> "filterCigarsByInventory", cigars |-> call.cigars,
              enriched |-> ret.cigars]
  /\ ret' = filterCigarsByInventory(ret.cigars)
  /\ UNCHANGED <<catalog, handlerVars, cacheVars, adminVars>>

(* enrichWithInventoryData(enrichWithInventoryData(cigars)) *)
CallEnrichAgain ==
  /\ call.fn = "enrichWithInventoryData"
  /\ ret.ok
  /\ call' = [fn |-> "enrichAgain", cigars |-> call.cigars, first |-> ret.cigars]
  /\ ret' = enrichWithInventoryData([k \in 1..Len(ret.cigars) |-> asObject(ret.cigars[k])])
  /\ UNCHANGED <<catalog, handlerVars, cacheVars, adminVars>>

(* enrichWithInventoryData of the quiz route. *)
CallQuizEnrich ==
  /\ call.fn = "none"
  /\ \E cigars \in CandidateLists :
       /\ call' = [fn |-> "quizEnrichWithInventoryData", cigars |-> cigars]
       /\ ret' = quizEnrichWithInventoryData(cigars)
  /\ UNCHANGED <<catalog, handlerVars, cacheVars, adminVars>>

NextEnrich == CallEnrich \/ CallFilter \/ CallEnrichAgain \/ CallQuizEnrich

SpecEnrich == Init /\ [][NextEnrich]_vars

(***************************************************************************)
(* The parsers on their own: parseModelResponse and parseImageResponse on  *)
(* one text, and enrichWithInventoryData on what parseModelResponse found. *)
(* The texts are the handlers' answers, every cut of one answer that has   *)
(* escapes in its message, and JSON that is malformed in other ways.       *)
(***************************************************************************)

CutOffAnswers == { SubSeq(Said.full, 1, n) : n \in 0..Len(Said.full) }

MalformedAnswers ==
  { Said.trailingComma, Said.backslashNewline, Said.stringConfidence, Said.noMessage,
    Said.proseWithBraces }

ParseInputs == HandlerAnswers \cup CutOffAnswers \cup MalformedAnswers

(* Answers whose cigars array holds one element of any kind. *)
ArrayAnswers ==
  { answer(Num(90), Said.whatBand, <<m>>) :
      m \in MalformedCandidates \cup { CandidatePool[i] : i \in 1..Len(CandidatePool) } }
    \cup { answer(Num(90), Said.whatBand, <<CandidatePool[1], Null>>) }

CallParseModelResponse ==
  /\ call.fn = "none"
  /\ \E text \in ParseInputs :
       /\ call' = [fn |-> "parseModelResponse", text |-> text]
       /\ ret' = parseModelResponse(text)
  /\ UNCHANGED <<catalog, handlerVars, cacheVars, adminVars>>

(* Answers without candidates whose prose names a cigar, at a low and at   *)
(* a high confidence.                                                      *)
ProseAnswers ==
  { answer(Num(50), Said.thisIsOliva, <<>>), answer(Num(90), Said.thisIsOliva, <<>>),
    answer(Num(75), Said.seePadronReserve, <<>>) }

CallParseImageResponse ==
  /\ call.fn = "none"
  /\ \E text \in HandlerAnswers \cup MalformedAnswers \cup ProseAnswers :
       /\ call' = [fn |-> "parseImageResponse", text |-> text]
       /\ ret' = parseImageResponse(text)
  /\ UNCHANGED <<catalog, handlerVars, cacheVars, adminVars>>

(* enrichWithInventoryData(parseModelResponse(text).cigars) *)
CallParseThenEnrich ==
  /\ call.fn = "none"
  /\ \E text \in ArrayAnswers :
       /\ call' = [fn |-> "parseThenEnrich", text |-> text]
       /\ ret' = enrichWithInventoryData(parseModelResponse(text).cigars)
  /\ UNCHANGED <<catalog, handlerVars, cacheVars, adminVars>>

NextParse == CallParseModelResponse \/ CallParseImageResponse \/ CallParseThenEnrich

SpecParse == Init /\ [][NextParse]_vars

(***************************************************************************)
(* The vision requests on their own: several requests at a time, each      *)
(* one call of getReferenceImagesFromInventory.                            *)
(***************************************************************************)
InitReferences ==
  /\ catalog = ReferenceCatalog
  /\ call = [fn |-> "none"]
  /\ ret = NoMatch
  /\ pc = "idle"
  /\ req = [route |-> "none", image |-> FALSE, lastMessage |-> <<>>,
            hasGroq |-> FALSE, hasGemini |-> FALSE]
  /\ response = <<>>
  /\ succeeded = FALSE
  /\ log = <<>>
  /\ reply = NoReply
  /\ referenceImagesCache = Null
  /\ now = 0
  /\ refRequests = [r \in 1..MaxRequests |-> IdleRequest]
  /\ dataFile = StoredFile
  /\ adminRequests = [r \in 1..MaxRequests |-> IdleAdmin]

(* A request with an image arrives and calls                               *)
(* getReferenceImagesFromInventory: up to the first await.                 *)
GetReferenceImages(r) ==
  /\ refRequests[r].at = "idle"
  /\ \E route \in {"chat", "scan"} :
       refRequests' =
         [refRequests EXCEPT ![r] =
            IF cacheIsFresh
            THEN [route |-> route, at |-> "sent", selected |-> <<>>,
                  referenceImages |-> referenceImagesCache.images]
            ELSE [route |-> route, at |-> "fetching",
                  selected |-> selectReferences(catalog, countOf(route)),
                  referenceImages |-> <<>>]]
  /\ UNCHANGED <<catalog, call, ret, handlerVars, referenceImagesCache, now, adminVars>>

(* The fetches of the call end: it stores its results and returns them. *)
FetchReferenceImages(r) ==
  /\ refRequests[r].at = "fetching"
  /\ \E down \in Outages :
       LET results == fetchAll(refRequests[r].selected, down)
       IN  /\ referenceImagesCache' = [images |-> results, fetchedAt |-> now]
           /\ refRequests' = [refRequests EXCEPT ![r].at = "sent",
                                                 ![r].referenceImages = results]
  /\ UNCHANGED <<catalog, call, ret, handlerVars, now, adminVars>>

(* The request is answered. *)
RequestEnds(r) ==
  /\ refRequests[r].at = "sent"
  /\ refRequests' = [refRequests EXCEPT ![r] = IdleRequest]
  /\ UNCHANGED <<catalog, call, ret, handlerVars, referenceImagesCache, now, adminVars>>

(* Date.now() advances by half the time the cache lives. *)
Tick ==
  /\ now < MaxTicks * (CACHE_TTL_MS \div 2)
  /\ now' = now + (CACHE_TTL_MS \div 2)
  /\ UNCHANGED <<catalog, call, ret, handlerVars, referenceImagesCache, refRequests, adminVars>>

NextReferences ==
  \/ \E r \in 1..MaxRequests : GetReferenceImages(r)
  \/ \E r \in 1..MaxRequests : FetchReferenceImages(r)
  \/ \E r \in 1..MaxRequests : RequestEnds(r)
  \/ Tick

SpecReferences == InitReferences /\ [][NextReferences]_vars

(***************************************************************************)
(* The extractor on its own: a catalog and one call of                     *)
(* findCigarFromUserMessage.  The messages are those of the handlers, a    *)
(* brand alone, a line name alone, a sentence without an asking phrase,    *)
(* one word, and sentences whose query is made of noise words.             *)
(***************************************************************************)
ExtractMessages ==
  UserMessages \cup
  { <<"t", "e", "l", "l", " ", "m", "e", " ", "a", "b", "o", "u", "t", " ", "p", "a", "d", "r", "o", "n">>,
    <<"W", "h", "a", "t", " ", "a", "b", "o", "u", "t", " ", "R", "e", "s", "e", "r", "v", "e", "?">>,
    <<"p", "a", "d", "r", "o", "n", " ", "r", "e", "s", "e", "r", "v", "e">>,
    <<"P", "a", "d", "r", "o", "n">>,
    <<"t", "e", "l", "l", " ", "m", "e", " ", "a", "b", "o", "u", "t", " ", "t", "h", "e", " ", "c", "i", "g", "a", "r">>,
    <<"t", "h", "e", " ", "r", "o", "b", "u", "s", "t", "o">>,
    <<"s", "h", "o", "w", " ", "m", "e", " ", "t", "h", "e", " ", "O", "l", "i", "v", "a", " ", "R", "e", "s", "e", "r", "v", "e">> }

CallFindCigarFromUserMessage ==
  /\ call.fn = "none"
  /\ \E userMessage \in ExtractMessages :
       /\ call' = [fn |-> "findCigarFromUserMessage", userMessage |-> userMessage]
       /\ ret' = findCigarFromUserMessage(userMessage)
  /\ UNCHANGED <<catalog, handlerVars, cacheVars, adminVars>>

NextExtract == CallFindCigarFromUserMessage

SpecExtract == Init /\ [][NextExtract]_vars

(***************************************************************************)
(* The admin requests on their own: several requests at a time, each one   *)
(* POST, PUT or DELETE of /api/inventory, in steps that end where the      *)
(* handler awaits the file system.                                         *)
(***************************************************************************)
InitInventory ==
  /\ catalog = <<CatalogPool[1], CatalogPool[2]>>
  /\ call = [fn |-> "none"]
  /\ ret = NoMatch
  /\ pc = "idle"
  /\ req = [route |-> "none", image |-> FALSE, lastMessage |-> <<>>,
            hasGroq |-> FALSE, hasGemini |-> FALSE]
  /\ response = <<>>
  /\ succeeded = FALSE
  /\ log = <<>>
  /\ reply = NoReply
  /\ referenceImagesCache = Null
  /\ now = 0
  /\ refRequests = [r \in 1..MaxRequests |-> IdleRequest]
  /\ dataFile \in InitialFiles
  /\ adminRequests = [r \in 1..MaxRequests |-> IdleAdmin]

(* The request arrives: the password, the body and its required fields or  *)
(* its id, up to fs.readFile.                                              *)
AdminRequest(r) ==
  /\ adminRequests[r].at = "idle"
  /\ \E password \in Passwords :
       \/ /\ password # ADMIN_PASSWORD
          /\ \E method \in {"POST", "PUT", "DELETE"} :
               adminRequests' =
                 [adminRequests EXCEPT ![r] =
                    answered([IdleAdmin EXCEPT !.method = method], 401)]
       \/ /\ password = ADMIN_PASSWORD
          /\ \/ \E newCigar \in NewCigars :
                  adminRequests' =
                    [adminRequests EXCEPT ![r] =
                       IF \E field \in requiredFields : newCigar[field] = <<>>
                       THEN answered([IdleAdmin EXCEPT !.method = "POST",
                                                       !.body = newCigar], 400)
                       ELSE [IdleAdmin EXCEPT !.at = "readFile", !.method = "POST",
                                              !.body = newCigar]]
             \/ \E updates \in Updates :
                  adminRequests' =
                    [adminRequests EXCEPT ![r] =
                       IF updates.id = <<>>
                       THEN answered([IdleAdmin EXCEPT !.method = "PUT",
                                                       !.body = updates], 400)
                       ELSE [IdleAdmin EXCEPT !.at = "readFile", !.method = "PUT",
                                              !.body = updates]]
             \/ \E id \in RequestIds :
                  adminRequests' =
                    [adminRequests EXCEPT ![r] =
                       IF id = <<>>
                       THEN answered([IdleAdmin EXCEPT !.method = "DELETE",
                                                       !.body = [id |-> id]], 400)
                       ELSE [IdleAdmin EXCEPT !.at = "readFile", !.method = "DELETE",
                                              !.body = [id |-> id]]]
  /\ UNCHANGED <<catalog, call, ret, handlerVars, cacheVars, dataFile>>

(* fs.readFile returns what the file holds now, or throws; the handler     *)
(* goes on with its own copy, cigarsData, up to fs.writeFile.              *)
ReadFile(r) ==
  /\ adminRequests[r].at = "readFile"
  /\ \E threw \in BOOLEAN :
       adminRequests' =
         [adminRequests EXCEPT ![r] =
            LET a == adminRequests[r]
                maxId == newId(dataFile)
                cigarIndex == findIndex(dataFile, a.body.id)
            IN IF threw THEN answered(a, 500)
               ELSE IF a.method = "POST"
               THEN [a EXCEPT !.at = "writeFile",
                              !.cigar = fileCigar(maxId, a.body.name, 0),
                              !.cigarsData =
                                 Append(dataFile, fileCigar(maxId, a.body.name, 0))]
               ELSE IF cigarIndex = 0 THEN answered(a, 404)
               ELSE IF a.method = "PUT"
               THEN [a EXCEPT !.at = "writeFile",
                              !.cigar = [dataFile[cigarIndex]
                                           EXCEPT !.inventory = a.body.inventory],
                              !.cigarsData =
                                 [dataFile EXCEPT ![cigarIndex] =
                                    [dataFile[cigarIndex]
                                       EXCEPT !.inventory = a.body.inventory]]]
               ELSE [a EXCEPT !.at = "writeFile",
                              !.cigar = dataFile[cigarIndex],
                              !.cigarsData = splice(dataFile, cigarIndex)]]
  /\ UNCHANGED <<catalog, call, ret, handlerVars, cacheVars, dataFile>>

(* fs.writeFile puts the handler's copy in the place of the file, and the  *)
(* handler answers { success: true }.                                      *)
WriteFile(r) ==
  /\ adminRequests[r].at = "writeFile"
  /\ dataFile' = adminRequests[r].cigarsData
  /\ adminRequests' = [adminRequests EXCEPT ![r] = answered(adminRequests[r], 200)]
  /\ UNCHANGED <<catalog, call, ret, handlerVars, cacheVars>>

NextInventory ==
  \E r \in 1..MaxRequests : AdminRequest(r) \/ ReadFile(r) \/ WriteFile(r)

SpecInventory == InitInventory /\ [][NextInventory]_vars

(***************************************************************************)
(* Properties of the matcher, checked under SpecMatch.                     *)
(***************************************************************************)
queryNameOf(c) == trim(toLowerCase(c.cigarName.s))
queryBrandOf(c) == IF IsStr(c.brandName) THEN trim(toLowerCase(c.brandName.s)) ELSE <<>>

scoreOf(i) == entryScore(catalog[i], queryNameOf(call), queryBrandOf(call))

maxScore ==
  (CHOOSE result \in
     { CHOOSE m \in scores : \A n \in scores : n <= m
       : scores \in { { scoreOf(i) : i \in 1..Len(catalog) } } } : TRUE)

(* C3: for every catalog and every entry c of it,                          *)
(* findInventoryMatch(c.name, c.brand) returns c itself, not another entry *)
(* and not none.                                                           *)
C3_SelfMatch ==
  call.fn = "findInventoryMatch" =>
    \A i \in 1..Len(catalog) :
      (call.cigarName = Str(catalog[i].name) /\ call.brandName = Str(catalog[i].brand))
        => ret = i

(* C10: findInventoryMatch returns the first entry, in catalog order,      *)
(* whose score equals the maximum score over all entries, provided that    *)
(* maximum is at least 25; when the maximum is below 25 it returns none.   *)
C10_FirstMaximum ==
  call.fn = "findInventoryMatch" =>
    IF maxScore >= 25
    THEN /\ ret \in 1..Len(catalog)
         /\ scoreOf(ret) = maxScore
         /\ \A j \in 1..(ret - 1) : scoreOf(j) < maxScore
    ELSE ret = NoMatch

(* Two entries tie at a maximum of at least 25 (a line name that two       *)
(* brands share, asked for without a brand) and the first is returned.     *)
C10_TieReached ==
  /\ call.fn = "findInventoryMatch"
  /\ Len(catalog) = 2
  /\ scoreOf(1) = scoreOf(2)
  /\ scoreOf(1) >= 25
  /\ call.brandName = Undefined
  /\ ret = 1

(***************************************************************************)
(* Properties of enrichment, checked under SpecEnrich.                     *)
(***************************************************************************)
(* C5: round trip: for every catalog and every entry c of it,              *)
(* filterCigarsByInventory(enrichWithInventoryData([the candidate built    *)
(* from c])) returns exactly one card, and that card carries c's catalog   *)
(* values.                                                                 *)
C5_RoundTrip ==
  call.fn = "filterCigarsByInventory" =>
    \A i \in 1..Len(catalog) :
      call.cigars = <<recommendationOf(catalog[i])>> =>
        /\ Len(ret) = 1
        /\ ret[1] = cardOf(catalog[i], recommendationOf(catalog[i]))

(* C6: enrichment is idempotent: for every catalog and every candidate     *)
(* list, enriching the enriched cards again gives field-identical cards;   *)
(* the second pass resolves to the same entry as the first.                *)
C6_Idempotent ==
  call.fn = "enrichAgain" => (ret.ok /\ ret.cigars = call.first)

(***************************************************************************)
(* Properties of the request handlers, checked under Spec.                 *)
(***************************************************************************)
(* The card was resolved to entry i of the catalog: it has the name and    *)
(* the brand that enrichment writes for that entry.                        *)
resolvedTo(card, i) ==
  /\ card.name = Str(catalog[i].brand \o <<" ">> \o catalog[i].name)
  /\ card.brand = Str(catalog[i].brand)

(* C2: for every response of POST /api/chat to a request that carries an   *)
(* image, whatever the vision model returned, if the response's cigars     *)
(* list is non-empty then the response's confidence is at least 75.        *)
C2_ImageCardsNeedConfidence ==
  (pc = "done" /\ req.route = "chat" /\ req.image /\ Len(reply.cigars) > 0)
    => (reply.confidence.t = "num" /\ reply.confidence.n >= 75)

(* C4: only cigars the store carries are returned: every cigar in a        *)
(* response of the chat text flow, the chat image flow and the quiz flow   *)
(* was resolved to a catalog entry; a candidate that resolves to no entry  *)
(* is never returned.                                                      *)
C4_OnlyCarriedCigars ==
  pc = "done" =>
    \A k \in 1..Len(reply.cigars) :
      \E i \in 1..Len(catalog) : resolvedTo(reply.cigars[k], i)

(***************************************************************************)
(* Properties of the parsers, checked under SpecParse.                     *)
(***************************************************************************)
(* The confidence the guardrail works with: the parsed number, or 50. *)
parsedConfidence(text) ==
  (CHOOSE result \in
     { IF parsed.confidence.t = "num" THEN parsed.confidence.n ELSE 50
       : parsed \in { parseModelResponse(text) } } : TRUE)

(* C1: parseImageResponse: for every model output whose confidence (the    *)
(* parsed number, or 50 when absent) is below 75 and whose structured      *)
(* cigar list is non-empty, the returned cigar list is empty.              *)
C1_LowConfidenceClears ==
  (/\ call.fn = "parseImageResponse"
   /\ parsedConfidence(call.text) < 75
   /\ Len(parseModelResponse(call.text).cigars) > 0
   /\ ret.ok)
    => ret.cigars = <<>>

(* C7: for every model output that contains no JSON object structure at    *)
(* all (plain prose), parseModelResponse returns the entire raw text as    *)
(* the message together with an empty cigar list.                          *)
C7_ProseIsMessage ==
  (call.fn = "parseModelResponse" /\ ~Contains(call.text, "{"))
    => (ret.message = Str(call.text) /\ ret.cigars = <<>>)

(* C9: for every model output that parses as JSON with a cigars array,     *)
(* whatever the array's elements are, parseModelResponse followed by       *)
(* enrichWithInventoryData completes without throwing and yields a result  *)
(* for each element.                                                       *)
C9_NeverThrows ==
  call.fn = "parseThenEnrich" =>
    (ret.ok /\ Len(ret.cigars) = Len(parseModelResponse(call.text).cigars))

(* Strict parsing fails: no {...} in the cleaned text, or JSON.parse       *)
(* rejects it.                                                             *)
strictFails(text) ==
  (CHOOSE result \in
     { (CHOOSE result \in
          { ~jsonMatch.found
              \/ ~JSONparse(SubSeq(cleaned, jsonMatch.start, jsonMatch.end - 1)).ok
            : jsonMatch \in { match(cleaned, Cat(<<Lit(<<"{">>), Star(AnyChar), Lit(<<"}">>)>>)) } } : TRUE)
       : cleaned \in { stripFences(text) } } : TRUE)

(* The first position of s at or after p that holds no white space. *)
skipSpace(s, p0) ==
  (CHOOSE result \in
     { CHOOSE r \in p..(Len(s) + 1) :
         /\ r = Len(s) + 1 \/ s[r] \notin WhiteSpace
         /\ \A k \in p..(r - 1) : s[k] \in WhiteSpace
       : p \in { p0 } } : TRUE)

(* Where the value of the field written key starts when key is at q and a  *)
(* colon follows it; 0 when it is not so.                                  *)
valueAt(s, key, q) ==
  (CHOOSE result \in
     { IF a - 1 > Len(s) \/ SubSeq(s, q, a - 1) # key THEN 0
       ELSE (CHOOSE result \in
               { IF b <= Len(s) /\ s[b] = ":" THEN skipSpace(s, b + 1) ELSE 0
                 : b \in { skipSpace(s, a) } } : TRUE)
       : a \in { q + Len(key) } } : TRUE)

(* The places where "message": is followed by an opening quote, and where  *)
(* "confidence": is followed by a digit.                                   *)
messageFields(s) ==
  { q \in 1..Len(s) : \E r \in { valueAt(s, Txt.qmessage, q) } :
                        r > 0 /\ r <= Len(s) /\ s[r] = "\"" }

confidenceFields(s) ==
  { q \in 1..Len(s) : \E r \in { valueAt(s, Txt.qconfidence, q) } :
                        r > 0 /\ r <= Len(s) /\ s[r] \in Digits }

Least(Set) == (CHOOSE result \in
                 { CHOOSE q \in S : \A r \in S : q <= r
                   : S \in { Set } } : TRUE)

(* The character at q is the one an escaping backslash takes with it: the  *)
(* backslashes that precede it since p are odd in number.                  *)
afterBackslash(s, p, q) ==
  \E n \in 1..(q - p) :
    /\ n % 2 = 1
    /\ \A k \in 1..n : s[q - k] = "\\"
    /\ n = q - p \/ s[q - n - 1] # "\\"

(* The end of a string body that starts at p: the first unescaped quote,   *)
(* a backslash that no character of the line follows, or the end of s.     *)
bodyEnd(s, p) ==
  Least({ q \in p..(Len(s) + 1) :
            /\ ~afterBackslash(s, p, q)
            /\ \/ q = Len(s) + 1
               \/ s[q] = "\""
               \/ s[q] = "\\" /\ (q = Len(s) \/ s[q + 1] \in {"\n", "\r"}) })

(* The same, reading every backslash as the start of an escape. *)
rawBodyEnd(s, p) ==
  Least({ q \in p..(Len(s) + 1) :
            \/ q = Len(s) + 1
            \/ s[q] = "\"" /\ ~afterBackslash(s, p, q) })

(* s with every backslash-quote pair replaced by a quote. *)
unquote(s0) ==
  (CHOOSE result \in
     { (CHOOSE result \in
          { [k \in 1..Len(kept) |-> s[kept[k]]] \o <<>>
            : kept \in { SelectSeq([k \in 1..Len(s) |-> k],
                                   LAMBDA k : ~(s[k] = "\\" /\ k < Len(s) /\ s[k + 1] = "\"")) } } : TRUE)
       : s \in { s0 } } : TRUE)

(* The digits of s from p on. *)
digitRun(s, p) ==
  SubSeq(s, p, Least({ q \in p..(Len(s) + 1) : q = Len(s) + 1 \/ s[q] \notin Digits }) - 1)

expectedConfidence(s0) ==
  (CHOOSE result \in
     { (CHOOSE result \in
          { IF fields = {} THEN Undefined
            ELSE Num(parseInt(digitRun(s, valueAt(s, Txt.qconfidence, Least(fields)))))
            : fields \in { confidenceFields(s) } } : TRUE)
       : s \in { s0 } } : TRUE)

expectedMessage(s0) ==
  (CHOOSE result \in
     { (CHOOSE result \in
          { IF fields = {} THEN <<>>
            ELSE (CHOOSE result \in
                    { unquote(SubSeq(s, p, bodyEnd(s, p) - 1))
                      : p \in { valueAt(s, Txt.qmessage, Least(fields)) + 1 } } : TRUE)
            : fields \in { messageFields(s) } } : TRUE)
       : s \in { s0 } } : TRUE)

rawMessage(s0) ==
  (CHOOSE result \in
     { (CHOOSE result \in
          { IF fields = {} THEN <<>>
            ELSE (CHOOSE result \in
                    { SubSeq(s, p, rawBodyEnd(s, p) - 1)
                      : p \in { valueAt(s, Txt.qmessage, Least(fields)) + 1 } } : TRUE)
            : fields \in { messageFields(s) } } : TRUE)
       : s \in { s0 } } : TRUE)

(* C8, as amended: for every model output on which strict JSON parsing     *)
(* fails, parseModelResponse returns confidence = the integer that follows *)
(* the first "confidence": that digits follow (undefined when there is     *)
(* none) and message = the text that follows the first "message": " of     *)
(* the output, its code fences and surrounding white space removed, up to  *)
(* the first unescaped quote, a backslash that no character of the line    *)
(* follows, or the end, with every backslash-quote pair replaced by a      *)
(* quote (empty when there is no such field).                              *)
C8_RegexFallback ==
  (call.fn = "parseModelResponse" /\ strictFails(call.text)) =>
    /\ ret.confidence = expectedConfidence(stripFences(call.text))
    /\ ret.message = Str(expectedMessage(stripFences(call.text)))

(* C8, as stated: the message is the text that follows "message": " up to  *)
(* the first unescaped quote or the end of input.                          *)
C8_RawText ==
  (call.fn = "parseModelResponse" /\ strictFails(call.text)) =>
    /\ ret.confidence = expectedConfidence(stripFences(call.text))
    /\ ret.message = Str(rawMessage(stripFences(call.text)))

(* A cut-off answer whose confidence and message were recovered, the       *)
(* message with a quote that the answer had escaped.                       *)
C8_Recovered ==
  /\ call.fn = "parseModelResponse"
  /\ strictFails(call.text)
  /\ ret.confidence = Num(82)
  /\ Contains(ret.message.s, "\"")
  /\ Len(ret.message.s) < Len(rawMessage(stripFences(call.text)))

(***************************************************************************)
(* The matcher on a catalog that holds a line and a variant of it whose    *)
(* name continues the line's name, as a store that carries a cigar in two  *)
(* wrappers does, and an entry that is named by its size alone.            *)
(***************************************************************************)
VariantPool ==
  << [CatalogPool[4] EXCEPT !.id = 5, !.name = Name.Anniversary],
     [CatalogPool[4] EXCEPT !.id = 6, !.name = Name.AnniversaryMaduro],
     [CatalogPool[2] EXCEPT !.id = 7, !.name = Name.Churchill] >>

VariantCatalogs ==
  { [i \in 1..Len(ix) |-> VariantPool[ix[i]]] :
      ix \in { s \in UNION { [1..n -> 1..Len(VariantPool)] : n \in 1..MaxCatalog } :
                 \A i, j \in 1..Len(s) : i # j => s[i] # s[j] } }

VariantNames ==
  { Name.Anniversary, Name.AnniversaryMaduro, Name.Churchill, Name.n1964, Name.The, <<>> }
VariantBrands == { Undefined, Str(Name.Padron), Str(Name.Oliva) }

InitVariants ==
  /\ catalog \in VariantCatalogs
  /\ call = [fn |-> "none"]
  /\ ret = NoMatch
  /\ pc = "idle"
  /\ req = [route |-> "none", image |-> FALSE, lastMessage |-> <<>>,
            hasGroq |-> FALSE, hasGemini |-> FALSE]
  /\ response = <<>>
  /\ succeeded = FALSE
  /\ log = <<>>
  /\ reply = NoReply
  /\ referenceImagesCache = Null
  /\ now = 0
  /\ refRequests = [r \in 1..MaxRequests |-> IdleRequest]
  /\ dataFile = StoredFile
  /\ adminRequests = [r \in 1..MaxRequests |-> IdleAdmin]

CallFindVariant ==
  /\ call.fn = "none"
  /\ \E n \in VariantNames, b \in VariantBrands :
       /\ call' = [fn |-> "findInventoryMatch", cigarName |-> Str(n), brandName |-> b]
       /\ ret' = findInventoryMatch(Str(n), b)
  /\ UNCHANGED <<catalog, handlerVars, cacheVars, adminVars>>

NextVariants == CallFindVariant

SpecVariants == InitVariants /\ [][NextVariants]_vars

(* Entry i matches the query of the call exactly: its brand and name       *)
(* composite is the query composite, or its bare name is the query name    *)
(* (route.ts 59).                                                          *)
exactMatch(i) ==
  LET cName == toLowerCase(catalog[i].name)
      cFull == toLowerCase(catalog[i].brand) \o <<" ">> \o cName
      qFull == IF queryBrandOf(call) # <<>>
               THEN queryBrandOf(call) \o <<" ">> \o queryNameOf(call)
               ELSE queryNameOf(call)
  IN  cFull = qFull \/ cName = queryNameOf(call)

(* C11: whenever some catalog entry matches the query exactly,             *)
(* findInventoryMatch returns an exactly matching entry: no entry scored   *)
(* through token overlap outranks the score 100.                           *)
C11_ExactWins ==
  (call.fn = "findInventoryMatch" /\ \E i \in 1..Len(catalog) : exactMatch(i))
    => (ret \in 1..Len(catalog) /\ exactMatch(ret))

(* The tokens of the query of the call that are not noise words. *)
queryTokensOf(c) ==
  { t \in { tokenize(queryNameOf(c))[k] : k \in 1..Len(tokenize(queryNameOf(c))) }
            \cup { tokenize(queryBrandOf(c))[k] : k \in 1..Len(tokenize(queryBrandOf(c))) } :
      t \notin NOISE_WORDS }

(* The tokens of the brand and of the name of entry i. *)
entryTokens(i) ==
  LET ts == tokenize(toLowerCase(catalog[i].brand)) \o tokenize(toLowerCase(catalog[i].name))
  IN  { ts[k] : k \in 1..Len(ts) }

(* C12: for every query none of whose non-noise tokens equals a token of   *)
(* any catalog entry's brand or name, the empty query and a query of noise *)
(* words only included, findInventoryMatch returns none.                   *)
C12_NoOverlapNoMatch ==
  (/\ call.fn = "findInventoryMatch"
   /\ \A i \in 1..Len(catalog) : queryTokensOf(call) \cap entryTokens(i) = {})
    => ret = NoMatch

(***************************************************************************)
(* Properties of the filter, checked under SpecEnrich, where the filter    *)
(* is applied to the cards of an enrichment as the image flow applies it.  *)
(***************************************************************************)
(* The card has an imageUrl or a productUrl that is a non-empty string. *)
hasUrl(c) ==
  \/ c.imageUrl.t = "str" /\ c.imageUrl.s # <<>>
  \/ c.productUrl.t = "str" /\ c.productUrl.s # <<>>

sameEntry(a, b) ==
  LET ia == findInventoryMatch(Get(a, Key.name), Get(a, Key.brand))
      ib == findInventoryMatch(Get(b, Key.name), Get(b, Key.brand))
  IN  ia = ib /\ ia \in 1..Len(catalog)

(* C14: the same cigar always renders the same card: two candidates that   *)
(* findInventoryMatch resolves to the same catalog entry get               *)
(* field-identical cards from enrichWithInventoryData, whatever values     *)
(* the candidates carry in their own fields.                               *)
C14_SameCard ==
  (call.fn = "enrichWithInventoryData" /\ ret.ok) =>
    \A j, k \in 1..Len(call.cigars) :
      sameEntry(call.cigars[j], call.cigars[k]) => ret.cigars[j] = ret.cigars[k]

(***************************************************************************)
(* Properties of the provider fallback, checked under Spec.                *)
(***************************************************************************)
(* C15: provider fallback order in POST /api/chat, in the text flow and in *)
(* the image flow: Gemini is called if and only if it is configured and    *)
(* Groq did not succeed (was not configured, threw an error of any kind,   *)
(* or returned an empty response); after a failure of Groq no response is  *)
(* returned before the configured Gemini has been tried.                   *)
C15_FallbackOrder ==
  [][ /\ (pc = "idle" /\ req'.route = "chat" /\ (req'.hasGroq \/ req'.hasGemini)) =>
           (pc' = "gemini" <=> (req'.hasGemini /\ ~req'.hasGroq))
      /\ (pc = "groq" /\ req.route = "chat") =>
           (pc' = "gemini" <=> (req.hasGemini /\ ~succeeded')) ]_vars

(* The fixed messages of POST /api/chat for a request no provider answered. *)
GenericMessages ==
  { Str(Fixed.troubleConnecting), Str(Fixed.troubleAnalyzing), Str(Fixed.tooLarge) }

(* The request is answered and no configured provider succeeded. *)
allFailed ==
  /\ pc = "done"
  /\ req.route = "chat"
  /\ req.hasGroq \/ req.hasGemini
  /\ ~succeeded

(* C16: when every configured provider fails or returns an empty response, *)
(* POST /api/chat answers with one of its fixed generic messages and an    *)
(* empty cigars list, and an answer is always produced (no exception       *)
(* leaves the handler); in no flow does the response message contain a     *)
(* provider's error text.                                                  *)
C16_GenericFallback ==
  (pc = "done" /\ req.route = "chat") =>
    /\ reply # NoReply
    /\ allFailed => (reply.message \in GenericMessages /\ reply.cigars = <<>>)
    /\ reply.message.t = "str" =>
         \A e \in ErrorMessages : ~includes(reply.message.s, e)

(* Groq and then Gemini were called and both threw or returned nothing. *)
C16_BothFailed ==
  /\ allFailed
  /\ Len(log) >= 2
  /\ log[1] = "groq"
  /\ log[2] = "gemini"

(***************************************************************************)
(* Properties of the responses, checked under Spec.                        *)
(***************************************************************************)
(* C17: in the image flow of POST /api/chat the user is never silently     *)
(* shown nothing: every response whose cigars list is empty carries a      *)
(* non-empty clarification message, whatever the vision model returned     *)
(* (prose without JSON and JSON with an empty message included).           *)
C17_NeverNothing ==
  (pc = "done" /\ req.route = "chat" /\ req.image /\ Len(reply.cigars) = 0)
    => (reply.message.t = "str" /\ reply.message.s # <<>>)

(* C18: every response of the chat text flow, the chat image flow and the  *)
(* quiz flow contains at most 2 cigars, however many cigars the model      *)
(* returned and whether or not a cigar the user asked for was added.       *)
C18_AtMostTwo ==
  pc = "done" => Len(reply.cigars) <= 2

(* The model returned three candidates in the text flow, the user asked    *)
(* for a cigar of the catalog, and the response has two cards.             *)
C18_ThreeCutToTwo ==
  /\ pc = "done"
  /\ req.route = "chat"
  /\ ~req.image
  /\ findCigarFromUserMessage(req.lastMessage) # Null
  /\ Len(parseModelResponse(response).cigars) = 3
  /\ Len(reply.cigars) = 2

(***************************************************************************)
(* Properties of the requests side by side, checked under SpecReferences.  *)
(***************************************************************************)
(* What a call of getReferenceImagesFromInventory for the route returns    *)
(* when it is the only request there is: the images of the entries it      *)
(* selects from the catalog, those that could not be fetched left out.     *)
ownReferenceImages(route) ==
  { fetchAll(selectReferences(catalog, countOf(route)), down) : down \in Outages }

(* C19: concurrent and successive requests are fully independent: the      *)
(* reference images a request sends upstream are a function of that        *)
(* request and the catalog alone; no request reads state written by        *)
(* another request, whatever the interleaving of chat and scan requests.   *)
C19_Independent ==
  \A r \in 1..MaxRequests :
    refRequests[r].at = "sent" =>
      refRequests[r].referenceImages \in ownReferenceImages(refRequests[r].route)

(***************************************************************************)
(* Properties of the prose backfill, checked under SpecParse.              *)
(***************************************************************************)
(* The model's confidence as parseImageResponse reads it: 50 when absent. *)
modelConfidence(parsed) ==
  IF parsed.confidence.t = "num" THEN parsed.confidence.n ELSE 50

(* C20: parseImageResponse attempts the prose backfill                     *)
(* (findCigarFromImageMessage) only when the parsed structured cigar list  *)
(* is empty; when the backfill resolves a catalog entry, the result's      *)
(* cigar list is exactly that one entry and the result's confidence is at  *)
(* least 75: 80 when the model's confidence was below 75, and the model's  *)
(* confidence otherwise.                                                   *)
C20_Backfill ==
  (call.fn = "parseImageResponse" /\ ret.ok) =>
    LET parsed == parseModelResponse(call.text)
        entry == findCigarFromImageMessage(parsed.message.s)
    IN  /\ Len(parsed.cigars) > 0 =>
             (ret.cigars = parsed.cigars /\ ret.confidence = modelConfidence(parsed))
        /\ (Len(parsed.cigars) = 0 /\ entry # Null) =>
             /\ ret.cigars = <<entry>>
             /\ ret.confidence >= 75
             /\ ret.confidence = IF modelConfidence(parsed) < 75 THEN 80
                                 ELSE modelConfidence(parsed)

(* The backfill resolved an entry for an answer of confidence 90 and left  *)
(* the confidence as it was.                                               *)
C20_BackfilledHigh ==
  /\ call.fn = "parseImageResponse"
  /\ ret.ok
  /\ parseModelResponse(call.text).cigars = <<>>
  /\ parseModelResponse(call.text).confidence = Num(90)
  /\ Len(ret.cigars) = 1
  /\ ret.confidence = 90

(***************************************************************************)
(* Properties of the extractor, checked under SpecExtract.                 *)
(***************************************************************************)
(* The message of the call in lower case and trimmed, and the query the    *)
(* extractor takes from it.                                                *)
msgOf(c) == trim(toLowerCase(c.userMessage))
queryOf(c) == userQuery(msgOf(c))

(* C21: the extractor resolves names through the matcher: for every        *)
(* message, findCigarFromUserMessage returns a candidate built from        *)
(* catalog entry e if and only if findInventoryMatch applied to the query  *)
(* extracted from that message (no brand argument) returns e; the two      *)
(* never disagree on whether a name resolves or on which entry.            *)
C21_ExtractorUsesMatcher ==
  call.fn = "findCigarFromUserMessage" =>
    LET e == findInventoryMatch(Str(queryOf(call)), Undefined)
    IN  IF e \in 1..Len(catalog) THEN ret = recommendationOf(catalog[e])
        ELSE ret = Null

(* The tokens of s that are not noise words. *)
nonNoiseTokens(s) ==
  LET tokens == tokenize(s)
  IN  { tokens[k] : k \in { j \in 1..Len(tokens) : tokens[j] \notin NOISE_WORDS } }

(* C22: findCigarFromUserMessage returns none whenever the whole message   *)
(* tokenizes to fewer than 2 tokens, and whenever the extracted query (the *)
(* captured group of the first matching phrase pattern, or the whole       *)
(* message when no pattern matches) contains no non-noise token.           *)
C22_ExtractorGuards ==
  (/\ call.fn = "findCigarFromUserMessage"
   /\ \/ Len(tokenize(msgOf(call))) < 2
      \/ nonNoiseTokens(queryOf(call)) = {})
    => ret = Null

(* A message of several words whose query is made of noise words alone. *)
C22_NoiseQuery ==
  /\ call.fn = "findCigarFromUserMessage"
  /\ Len(tokenize(msgOf(call))) >= 2
  /\ queryOf(call) # msgOf(call)
  /\ nonNoiseTokens(queryOf(call)) = {}
  /\ ret = Null

(***************************************************************************)
(* Properties of enrichment in both routes, checked under SpecEnrich.      *)
(***************************************************************************)
(* C23: for a candidate that findInventoryMatch does not resolve,          *)
(* enrichWithInventoryData returns the candidate with every descriptive    *)
(* field unchanged and with no imageUrl and no productUrl, in the chat     *)
(* route and in the quiz route alike, also when the candidate from the     *)
(* model itself carried an imageUrl or a productUrl.                       *)
C23_UnresolvedPassThrough ==
  (call.fn \in {"enrichWithInventoryData", "quizEnrichWithInventoryData"} /\ ret.ok) =>
    \A k \in 1..Len(call.cigars) :
      findInventoryMatch(Get(call.cigars[k], Key.name), Get(call.cigars[k], Key.brand)) = NoMatch
        => ret.cigars[k] = [spread(call.cigars[k]) EXCEPT !.imageUrl = Undefined,
                                                           !.productUrl = Undefined]

(***************************************************************************)
(* Properties of the scores of findInventoryMatch, checked under           *)
(* SpecMatch.                                                              *)
(***************************************************************************)
(* The composite strings of entry i and of the query. *)
cFullOf(i) == toLowerCase(catalog[i].brand) \o <<" ">> \o toLowerCase(catalog[i].name)
qFullOf(c) ==
  IF queryBrandOf(c) # <<>> THEN queryBrandOf(c) \o <<" ">> \o queryNameOf(c)
  ELSE queryNameOf(c)

(* C24: in findInventoryMatch an entry whose composite brand + ' ' + name  *)
(* contains the composite query string, or is contained in it, without     *)
(* being equal to it (and whose name is not the query name, which is an    *)
(* exact match), is scored 98.                                             *)
C24_Containment98 ==
  call.fn = "findInventoryMatch" =>
    \A i \in 1..Len(catalog) :
      (/\ cFullOf(i) # qFullOf(call)
       /\ toLowerCase(catalog[i].name) # queryNameOf(call)
       /\ includes(cFullOf(i), qFullOf(call)) \/ includes(qFullOf(call), cFullOf(i)))
        => scoreOf(i) = 98

(* The tokens of the query: the brand tokens, then the name tokens that    *)
(* are not brand tokens.                                                   *)
allQueryTokensOf(c) ==
  LET brandTokens == tokenize(queryBrandOf(c))
  IN  brandTokens \o SelectSeq(tokenize(queryNameOf(c)), LAMBDA t : ~Contains(brandTokens, t))

(* The tokens of entry i. *)
cAllTokensOf(i) ==
  tokenize(toLowerCase(catalog[i].brand)) \o tokenize(toLowerCase(catalog[i].name))

(* The query tokens that are no noise words and are tokens of entry i. *)
matchedOf(i) ==
  SelectSeq(allQueryTokensOf(call),
            LAMBDA qt : qt \notin NOISE_WORDS /\ Contains(cAllTokensOf(i), qt))

(* The matched tokens that are not query-brand tokens. *)
nonBrandMatchesOf(i) ==
  SelectSeq(matchedOf(i), LAMBDA m : ~Contains(tokenize(queryBrandOf(call)), m))

(* 30 for an all-digit token, 20 for a token of length at least 6, else 10. *)
weightOf(qt) ==
  IF qt # <<>> /\ \A k \in 1..Len(qt) : qt[k] \in Digits THEN 30
  ELSE IF Len(qt) >= 6 THEN 20 ELSE 10

RECURSIVE W(_)
W(tokens) == IF tokens = <<>> THEN 0 ELSE weightOf(Head(tokens)) + W(Tail(tokens))

(* The query brand matches the brand of entry i. *)
brandMatchOf(i) ==
  LET cBrand == toLowerCase(catalog[i].brand)
      queryBrand == queryBrandOf(call)
  IN  /\ queryBrand # <<>>
      /\ \/ includes(cBrand, queryBrand)
         \/ includes(queryBrand, cBrand)
         \/ \E k \in 1..Len(tokenize(cBrand)) : Contains(tokenize(queryBrand), tokenize(cBrand)[k])

(* The base score of entry i. *)
baseOf(i) ==
  IF brandMatchOf(i) /\ Len(nonBrandMatchesOf(i)) >= 1 THEN 20 + W(matchedOf(i))
  ELSE IF Len(nonBrandMatchesOf(i)) >= 2 THEN 10 + W(matchedOf(i))
  ELSE 0

(* Entry i is matched exactly: the 100 and the 98 rule. *)
exactOrNear(i) ==
  \/ cFullOf(i) = qFullOf(call)
  \/ toLowerCase(catalog[i].name) = queryNameOf(call)
  \/ cFullOf(i) = queryNameOf(call)

nameBonus(i) ==
  LET cName == toLowerCase(catalog[i].name)
  IN  IF includes(queryNameOf(call), cName) \/ includes(cName, queryNameOf(call)) THEN 15 ELSE 0

fullBonus(i) ==
  IF includes(qFullOf(call), cFullOf(i)) \/ includes(cFullOf(i), qFullOf(call)) THEN 10 ELSE 0

(* C25: in the token-overlap path of findInventoryMatch, for every query   *)
(* and every entry, the entry's score is its base score plus 15 when the   *)
(* query name and the catalog name are substrings of one another, plus 10  *)
(* when the composite strings are substrings of one another; the two       *)
(* bonuses are added on every such entry, also when its base score is 0.   *)
C25_BonusesAlways ==
  call.fn = "findInventoryMatch" =>
    \A i \in 1..Len(catalog) :
      ~exactOrNear(i) => scoreOf(i) = baseOf(i) + nameBonus(i) + fullBonus(i)

(* C26: in findInventoryMatch, for an entry not matched exactly, the base  *)
(* score is 20 + W when the query brand matches the entry's brand and at   *)
(* least one matched query token is not a query-brand token, else 10 + W   *)
(* when at least two matched tokens are not query-brand tokens, else 0; W  *)
(* sums, over the query tokens (brand tokens first, then the name tokens   *)
(* that are not brand tokens) that are not noise words and equal some      *)
(* brand or name token of the entry, 30 for an all-digit token, 20 for a   *)
(* token of length at least 6, and 10 otherwise.  The base score is the    *)
(* entry's score less the substring bonuses a positive base score earns.   *)
C26_BaseScore ==
  call.fn = "findInventoryMatch" =>
    \A i \in 1..Len(catalog) :
      ~exactOrNear(i) =>
        scoreOf(i) = IF baseOf(i) > 0 THEN baseOf(i) + nameBonus(i) + fullBonus(i) ELSE 0

(* An entry whose brand the query does not match was scored 10 + W or     *)
(* more on two matched tokens.                                             *)
C26_TwoTokensNoBrand ==
  /\ call.fn = "findInventoryMatch"
  /\ \E i \in 1..Len(catalog) :
       /\ ~exactOrNear(i)
       /\ ~brandMatchOf(i)
       /\ Len(nonBrandMatchesOf(i)) >= 2
       /\ scoreOf(i) >= 10 + W(matchedOf(i))

(* C27: no cross-brand false positive: when a query brand is given,        *)
(* findInventoryMatch returns an entry whose brand tokens share no token   *)
(* with the query brand only if at least two query tokens that are not     *)
(* brand tokens match that entry; a single generic line-name token (a      *)
(* query name equal to an entry's one-word name) is never enough.          *)
C27_NoCrossBrand ==
  (/\ call.fn = "findInventoryMatch"
   /\ queryBrandOf(call) # <<>>
   /\ ret \in 1..Len(catalog))
    => LET cBrandTokens == tokenize(toLowerCase(catalog[ret].brand))
           brandTokens == tokenize(queryBrandOf(call))
       IN  (\A k \in 1..Len(cBrandTokens) : ~Contains(brandTokens, cBrandTokens[k]))
             => Len(nonBrandMatchesOf(ret)) >= 2

(***************************************************************************)
(* Properties of the text flow, checked under Spec.                        *)
(***************************************************************************)
(* The text flow answered from a model's text whose cigars it could        *)
(* enrich.                                                                 *)
answeredFromModel ==
  /\ pc = "done"
  /\ req.route = "chat"
  /\ ~req.image
  /\ succeeded
  /\ enrichWithInventoryData(parseModelResponse(response).cigars).ok

(* C28: in the text flow of POST /api/chat, when findCigarFromUserMessage  *)
(* resolves the user's latest message to catalog entry e, the response's   *)
(* cigars contain exactly one card for e: the requested cigar is shown,    *)
(* and it is not repeated when the model's own cigar list already          *)
(* contained e.                                                            *)
C28_RequestedOnce ==
  answeredFromModel =>
    LET e == userMessageEntry(req.lastMessage)
    IN  e # NoMatch =>
          Cardinality({ k \in 1..Len(reply.cigars) : resolvedTo(reply.cigars[k], e) }) = 1

(***************************************************************************)
(* Termination of the text flow, checked under SpecFair.                   *)
(***************************************************************************)
(* The calls of the log made to a provider of the given names. *)
callsTo(names) == Cardinality({ k \in 1..Len(log) : log[k] \in names })

inTextFlow == req.route = "chat" /\ ~req.image

(* C29: every text-flow request to POST /api/chat terminates with a JSON   *)
(* response after at most three upstream calls: at most one Groq call and  *)
(* at most two Gemini calls, the second Gemini call being made only when   *)
(* the first one threw an error whose message contains '429'; the retry    *)
(* never repeats.                                                          *)
C29_TextFlowTerminates ==
  /\ [](inTextFlow =>
          /\ Len(log) <= 3
          /\ callsTo({"groq"}) <= 1
          /\ callsTo({"gemini", "gemini429"}) <= 2
          /\ \A k \in 2..Len(log) :
               (log[k] \in {"gemini", "gemini429"} /\ log[k - 1] \in {"gemini", "gemini429"})
                 => log[k - 1] = "gemini429")
  /\ (inTextFlow ~> (pc = "done" /\ reply # NoReply))

(* Three upstream calls: Groq, a Gemini call that threw a 429, and the     *)
(* retry, which threw a 429 again.                                         *)
C29_RetriedOnce ==
  /\ inTextFlow
  /\ pc = "done"
  /\ log = <<"groq", "gemini429", "gemini429">>

(***************************************************************************)
(* C30: no admin write is lost.  When two authorized write requests to     *)
(* /api/inventory (POST, PUT or DELETE) have both answered success, in any *)
(* interleaving of their steps, the stored catalog reflects both writes:   *)
(* a cigar that was added is in the file unless the other request deleted  *)
(* it, a cigar that was updated has the count that was put unless the      *)
(* other request deleted it or put its own count, a cigar that was deleted *)
(* is not in the file; and two POSTs never assign the same id.             *)
(***************************************************************************)
writeSucceeded(r) == adminRequests[r].at = "done" /\ adminRequests[r].status = 200

inFile(id, name) ==
  \E k \in 1..Len(dataFile) : dataFile[k].id = id /\ dataFile[k].name = name

deletedBy(o, id) ==
  writeSucceeded(o) /\ adminRequests[o].method = "DELETE" /\ adminRequests[o].cigar.id = id

reflected(r, o) ==
  LET a == adminRequests[r]
  IN CASE a.method = "POST" ->
            inFile(a.cigar.id, a.cigar.name) \/ deletedBy(o, a.cigar.id)
       [] a.method = "PUT" ->
            IF findIndex(dataFile, a.body.id) = 0 THEN deletedBy(o, a.body.id)
            ELSE \/ dataFile[findIndex(dataFile, a.body.id)].inventory = a.body.inventory
                 \/ /\ writeSucceeded(o)
                    /\ adminRequests[o].method = "PUT"
                    /\ adminRequests[o].body.id = a.body.id
       [] OTHER -> ~inFile(a.cigar.id, a.cigar.name)

C30_NoWriteLost ==
  \A r, o \in 1..MaxRequests :
    (r # o /\ writeSucceeded(r) /\ writeSucceeded(o))
      => /\ reflected(r, o)
         /\ (adminRequests[r].method = "POST" /\ adminRequests[o].method = "POST")
              => adminRequests[r].cigar.id # adminRequests[o].cigar.id
====
